---------------------------- MODULE Spec2Model ----------------------------
(***************************************************************************)
(* A model of the backtest core of trading_tool: the chronological event   *)
(* queue (include/backtest/event_queue.h), the execution engine            *)
(* (include/backtest/execution_engine.h) and the backtest loop             *)
(* (src/backtest/backtest_engine.cpp); and of the thread pool               *)
(* (src/core/thread_pool.cpp) with the market manager that feeds it        *)
(* (src/core/market_manager.cpp).                                          *)
(*                                                                         *)
(* Prices are integers counting PriceUnit-ths of a currency unit; bids and *)
(* asks are drawn from whole currency units, so (bid + ask) * 0.5 is exact.*)
(* Commissions count 1/FeeScale of a price unit.  Timestamps are           *)
(* nanosecond counts.                                                      *)
(***************************************************************************)
EXTENDS Integers, Sequences, FiniteSets, Bags, TLC

VARIABLES
    queue_,            \* EventQueue::queue_: the heap's underlying vector
    stopped_,          \* EventQueue::stopped_
    mutex_,            \* EventQueue::mutex_: its owner, or NoThread
    cv_,               \* EventQueue::cv_: the threads blocked in cv_.wait
    last_ticks_,       \* ExecutionEngine::last_ticks_: symbol -> TickEvent
    fills_history,     \* ExecutionEngine::fills_history
    slippage_model_,   \* ExecutionEngine::slippage_model_ (the injected policy)
    running_,          \* BacktestEngine::running_
    events_processed_, \* BacktestEngine::events_processed_
    pc,                \* each thread's position in the code it runs
    event,             \* each thread's local `Event event` (the last pop result)
    trace,             \* the calls completed so far, in order (history)
    tasks,             \* ThreadPool::tasks: the FIFO of queued tasks
    queue_mutex,       \* ThreadPool::queue_mutex: its owner, or NoThread
    condition,         \* ThreadPool::condition: the workers blocked in wait
    stop_flag,         \* ThreadPool::stop_flag
    destroyed,         \* the ThreadPool members whose destructor has run
    market_data        \* MarketManager::market_data: symbol -> prices

\* The variables of the thread pool and the market manager.
poolVars == <<tasks, queue_mutex, condition, stop_flag, destroyed, market_data>>

vars == <<queue_, stopped_, mutex_, cv_, last_ticks_, fills_history,
          slippage_model_, running_, events_processed_, pc, event, trace,
          poolVars>>

(***************************************************************************)
(* Bounds of the model.                                                    *)
(***************************************************************************)
MaxTs == 2          \* timestamps are 0..MaxTs
MaxOps == 5         \* calls made on a queue driven by one thread

NoThread == <<"none", 0>>

(***************************************************************************)
(* core/events.h: the event variants.                                      *)
(***************************************************************************)
BUY == "BUY"
SELL == "SELL"
Side == {BUY, SELL}

TickEvent(ts, sym, bid, ask, bvol, avol) ==
    [type |-> "TICK", timestamp |-> ts, symbol |-> sym, bid |-> bid, ask |-> ask,
     bid_volume |-> bvol, ask_volume |-> avol]

SignalEvent(ts, sym, side, strategy) ==
    [type |-> "SIGNAL", timestamp |-> ts, symbol |-> sym, side |-> side,
     strategy_id |-> strategy]

OrderEvent(id, ts, sym, side, qty, limit, status, strategy) ==
    [type |-> "ORDER", order_id |-> id, timestamp |-> ts, symbol |-> sym,
     side |-> side, quantity |-> qty, limit_price |-> limit, status |-> status,
     strategy_id |-> strategy]

FillEvent(id, ts, sym, side, qty, price, commission, slippage, exchange) ==
    [type |-> "FILL", order_id |-> id, timestamp |-> ts, symbol |-> sym,
     side |-> side, filled_quantity |-> qty, fill_price |-> price,
     commission |-> commission, slippage |-> slippage, exchange |-> exchange]

PositionUpdateEvent(ts, sym, position, avg_entry, unrealized, realized) ==
    [type |-> "POSITION_UPDATE", timestamp |-> ts, symbol |-> sym,
     position |-> position, avg_entry_price |-> avg_entry,
     unrealized_pnl |-> unrealized, realized_pnl |-> realized]

PnLUpdateEvent(ts, total, realized, unrealized, commission, trades, wins) ==
    [type |-> "PNL_UPDATE", timestamp |-> ts, total_pnl |-> total,
     realized_pnl |-> realized, unrealized_pnl |-> unrealized,
     commission_paid |-> commission, total_trades |-> trades,
     winning_trades |-> wins]

\* `return {}` of an Event: the variant's first alternative, value-initialised.
DefaultEvent == TickEvent(0, "", 0, 0, 0, 0)

get_timestamp(e) == e.timestamp

\* A comparator that ranks the earlier event lower: the heap of latest-first.
EventComparatorEarliestLast(a, b) == get_timestamp(a) < get_timestamp(b)

\* EventComparator: a ranks below b in the heap when a is LATER than b.
EventComparator(a, b) == get_timestamp(a) > get_timestamp(b)

\* OrderEvent::is_market_order
is_market_order(order) == order.limit_price = 0

(***************************************************************************)
(* std::priority_queue<Event, std::vector<Event>, EventComparator>: a     *)
(* binary heap in a vector, maintained by std::push_heap / std::pop_heap.  *)
(* Indices below are the 0-based ones of the algorithms; s[i + 1] is the   *)
(* vector's element i.                                                     *)
(***************************************************************************)
RECURSIVE PushHeap(_, _, _, _)
PushHeap(s, holeIndex, topIndex, value) ==
    LET parent == (holeIndex - 1) \div 2
    IN  IF holeIndex > topIndex /\ EventComparator(s[parent + 1], value)
        THEN PushHeap([s EXCEPT ![holeIndex + 1] = s[parent + 1]],
                      parent, topIndex, value)
        ELSE [s EXCEPT ![holeIndex + 1] = value]

RECURSIVE SiftDown(_, _, _)
\* The first loop of std::__adjust_heap: move the hole down to a leaf,
\* each time promoting the child the comparator ranks higher.
SiftDown(s, secondChild, len) ==
    IF secondChild < (len - 1) \div 2
    THEN LET right == 2 * (secondChild + 1)
             child == IF EventComparator(s[right + 1], s[right]) THEN right - 1
                      ELSE right
         IN  SiftDown([s EXCEPT ![secondChild + 1] = s[child + 1]], child, len)
    ELSE <<s, secondChild>>

AdjustHeap(s, len, value) ==
    LET down == SiftDown(s, 0, len)
        s1 == down[1]
        hole == down[2]
    IN  IF len % 2 = 0 /\ hole = (len - 2) \div 2
        THEN LET only == 2 * (hole + 1) - 1
             IN  PushHeap([s1 EXCEPT ![hole + 1] = s1[only + 1]], only, 0, value)
        ELSE PushHeap(s1, hole, 0, value)

\* priority_queue::push: c.push_back(x); std::push_heap(c.begin(), c.end(), comp)
HeapPush(q, e) == PushHeap(Append(q, e), Len(q), 0, e)

\* priority_queue::top
HeapTop(q) == q[1]

\* priority_queue::pop: std::pop_heap(c.begin(), c.end(), comp); c.pop_back()
HeapPop(q) ==
    LET n == Len(q)
    IN  IF n > 1
        THEN SubSeq(AdjustHeap([q EXCEPT ![n] = q[1]], n - 1, q[n]), 1, n - 1)
        ELSE <<>>

(***************************************************************************)
(* The events a driver of the bare queue pushes.                           *)
(***************************************************************************)
Timestamps == 0..MaxTs

QueueEvents ==
    {TickEvent(ts, "ABC", 198, 202, 10, 10) : ts \in Timestamps}
    \cup {SignalEvent(ts, "ABC", BUY, "s1") : ts \in Timestamps}

(***************************************************************************)
(* SpecQueue: one thread driving an EventQueue through its public methods. *)
(***************************************************************************)
\* No ThreadPool, and no MarketManager, has been constructed.
NoPool ==
    /\ tasks = <<>>
    /\ queue_mutex = NoThread
    /\ condition = {}
    /\ stop_flag = FALSE
    /\ destroyed = {}
    /\ market_data = <<>>

InitCommon ==
    /\ queue_ = <<>>
    /\ stopped_ = FALSE
    /\ mutex_ = NoThread
    /\ cv_ = {}
    /\ last_ticks_ = <<>>
    /\ fills_history = <<>>
    /\ running_ = FALSE
    /\ events_processed_ = 0
    /\ pc = <<>>
    /\ event = <<>>
    /\ trace = <<>>
    /\ NoPool

QInit ==
    /\ InitCommon
    /\ slippage_model_ = [kind |-> "mid"]

\* EventQueue::push, from a thread that finds the mutex free and no waiter.
QPush(e) ==
    /\ Len(trace) < MaxOps
    /\ queue_' = HeapPush(queue_, e)
    /\ trace' = Append(trace, [op |-> "push", ev |-> e])
    /\ UNCHANGED <<stopped_, mutex_, cv_, last_ticks_, fills_history,
                   slippage_model_, poolVars, running_, events_processed_, pc, event>>

\* pop that waits for an event even on a stopped queue.
QPop_BlocksWhenEmpty ==
    /\ Len(trace) < MaxOps
    /\ queue_ # <<>>
    /\ trace' = Append(trace, [op |-> "pop", ev |-> HeapTop(queue_),
                               sentinel |-> FALSE])
    /\ queue_' = HeapPop(queue_)
    /\ UNCHANGED <<stopped_, mutex_, cv_, last_ticks_, fills_history,
                   slippage_model_, poolVars, running_, events_processed_, pc, event>>

\* EventQueue::pop.  With the queue empty and not stopped the one thread
\* would block in cv_.wait for ever: the call is not made.
QPop ==
    /\ Len(trace) < MaxOps
    /\ queue_ # <<>> \/ stopped_
    /\ IF queue_ = <<>>
       THEN /\ trace' = Append(trace, [op |-> "pop", ev |-> DefaultEvent,
                                       sentinel |-> TRUE])
            /\ UNCHANGED queue_
       ELSE /\ trace' = Append(trace, [op |-> "pop", ev |-> HeapTop(queue_),
                                       sentinel |-> FALSE])
            /\ queue_' = HeapPop(queue_)
    /\ UNCHANGED <<stopped_, mutex_, cv_, last_ticks_, fills_history,
                   slippage_model_, poolVars, running_, events_processed_, pc, event>>

\* try_pop that gives up on a stopped queue.
QTryPop_ChecksStopped ==
    /\ Len(trace) < MaxOps
    /\ IF queue_ = <<>> \/ stopped_
       THEN /\ trace' = Append(trace, [op |-> "try_pop", ok |-> FALSE])
            /\ UNCHANGED <<queue_, event>>
       ELSE /\ trace' = Append(trace, [op |-> "try_pop", ok |-> TRUE,
                                       ev |-> HeapTop(queue_)])
            /\ event' = HeapTop(queue_)
            /\ queue_' = HeapPop(queue_)
    /\ UNCHANGED <<stopped_, mutex_, cv_, last_ticks_, fills_history,
                   slippage_model_, poolVars, running_, events_processed_, pc>>

\* EventQueue::try_pop; `event` is the caller's variable passed as out_event.
QTryPop ==
    /\ Len(trace) < MaxOps
    /\ IF queue_ = <<>>
       THEN /\ trace' = Append(trace, [op |-> "try_pop", ok |-> FALSE])
            /\ UNCHANGED <<queue_, event>>
       ELSE /\ trace' = Append(trace, [op |-> "try_pop", ok |-> TRUE,
                                       ev |-> HeapTop(queue_)])
            /\ event' = HeapTop(queue_)
            /\ queue_' = HeapPop(queue_)
    /\ UNCHANGED <<stopped_, mutex_, cv_, last_ticks_, fills_history,
                   slippage_model_, poolVars, running_, events_processed_, pc>>

\* stop that also discards the queued events.
QStop_Clears ==
    /\ Len(trace) < MaxOps
    /\ stopped_' = TRUE
    /\ queue_' = <<>>
    /\ trace' = Append(trace, [op |-> "stop"])
    /\ UNCHANGED <<mutex_, cv_, last_ticks_, fills_history,
                   slippage_model_, poolVars, running_, events_processed_, pc, event>>

\* EventQueue::stop
QStop ==
    /\ Len(trace) < MaxOps
    /\ stopped_' = TRUE
    /\ trace' = Append(trace, [op |-> "stop"])
    /\ UNCHANGED <<queue_, mutex_, cv_, last_ticks_, fills_history,
                   slippage_model_, poolVars, running_, events_processed_, pc, event>>

QNext ==
    \/ \E e \in QueueEvents : QPush(e)
    \/ QPop
    \/ QTryPop
    \/ QStop

SpecQueue == QInit /\ [][QNext]_vars

\* The positions of the trace holding a pop() that returned a queued event.
PopsOf(t) == {i \in 1..Len(t) : t[i].op = "pop" /\ ~t[i].sentinel}

\* Every push of the trace precedes its first pop()/try_pop().
PushedBeforeFirstPop(t) ==
    \A i, j \in 1..Len(t) :
        (t[i].op \in {"pop", "try_pop"} /\ t[j].op = "push") => j < i

\* C1: events pushed in any order before the first pop are returned by the
\* successive pop() calls in non-decreasing timestamp order.
C1_PopNonDecreasing ==
    PushedBeforeFirstPop(trace) =>
        \A i, j \in PopsOf(trace) :
            i < j => get_timestamp(trace[i].ev) <= get_timestamp(trace[j].ev)

\* Three events pushed latest first, then the two earliest popped in order.
C1_Witness ==
    /\ Len(trace) = 5
    /\ \A i \in 1..3 : trace[i].op = "push" /\ get_timestamp(trace[i].ev) = 3 - i
    /\ \A i \in 4..5 : i \in PopsOf(trace) /\ get_timestamp(trace[i].ev) = i - 4

\* The step is a call of the named method; Ret is what the call returned.
QStepOf(op) == trace' # trace /\ trace'[Len(trace')].op = op
Ret == trace'[Len(trace')]

\* e is an event of q of the smallest timestamp, and r is q with one e removed.
TakesMin(q, e, r) ==
    /\ \A i \in 1..Len(q) : get_timestamp(e) <= get_timestamp(q[i])
    /\ \E i \in 1..Len(q) :
         /\ q[i] = e
         /\ \A x \in {q[k] : k \in 1..Len(q)} :
               Cardinality({k \in 1..Len(r) : r[k] = x})
                 = Cardinality({k \in 1..Len(q) : q[k] = x}) - (IF x = e THEN 1 ELSE 0)
    /\ Len(r) = Len(q) - 1

\* C17: on a stopped and empty queue pop() does not block, returns the
\* sentinel and leaves the queue stopped and empty; nothing but a push ends
\* that condition, so every later pop() returns the sentinel too.
C17_StoppedEmptyPopSentinel ==
    /\ []((stopped_ /\ queue_ = <<>> /\ Len(trace) < MaxOps) => ENABLED QPop)
    /\ [][(stopped_ /\ queue_ = <<>> /\ QStepOf("pop"))
          => (Ret.sentinel /\ Ret.ev = DefaultEvent)]_vars
    /\ [][(stopped_ /\ queue_ = <<>> /\ trace' # trace /\ Ret.op # "push")
          => (stopped_' /\ queue_' = <<>>)]_vars

\* An event pushed and popped, stop(), then three pop() calls in a row, each
\* returning the sentinel.
C17_Witness ==
    /\ Len(trace) = 5
    /\ trace[1].op = "push"
    /\ trace[2].op = "stop"
    /\ trace[3].op = "pop" /\ ~trace[3].sentinel
    /\ \A i \in 4..5 : trace[i].op = "pop" /\ trace[i].sentinel
    /\ stopped_ /\ queue_ = <<>>

\* C18: try_pop() is never blocked; on an empty queue it returns false and
\* leaves out_event and the queue as they were, on a non-empty queue it returns
\* true with an event of the smallest timestamp, removed from the queue and
\* stored in out_event; in both cases whatever stopped_ is, which it leaves
\* alone.
C18_TryPopIgnoresStopped ==
    /\ [](Len(trace) < MaxOps => ENABLED QTryPop)
    /\ [][QStepOf("try_pop")
          => /\ stopped_' = stopped_
             /\ IF queue_ = <<>>
                THEN ~Ret.ok /\ event' = event /\ queue_' = queue_
                ELSE /\ Ret.ok
                     /\ event' = Ret.ev
                     /\ TakesMin(queue_, Ret.ev, queue_')]_vars

\* An event pushed, stop(), try_pop() returning that event, then try_pop()
\* failing on the stopped empty queue with out_event still holding it.
C18_Witness ==
    /\ Len(trace) = 4
    /\ trace[1].op = "push"
    /\ trace[2].op = "stop"
    /\ trace[3].op = "try_pop" /\ trace[3].ok /\ trace[3].ev = trace[1].ev
    /\ trace[4].op = "try_pop" /\ ~trace[4].ok
    /\ event = trace[1].ev
    /\ stopped_

\* The positions of the trace holding a pop()/try_pop() that returned an event.
Returns(t) ==
    {i \in 1..Len(t) : \/ t[i].op = "pop" /\ ~t[i].sentinel
                       \/ t[i].op = "try_pop" /\ t[i].ok}

\* C19: stop() leaves the queued events and out_event alone and sets
\* stopped_; a stop() on a stopped queue changes nothing; on a stopped queue
\* that holds events pop() and try_pop() still return an event of the
\* smallest timestamp; pop() returns the sentinel only on an empty queue; so
\* the events queued at stop() come out in timestamp order.
C19_StopKeepsEvents ==
    /\ [][QStepOf("stop")
          => (/\ queue_' = queue_
              /\ event' = event
              /\ stopped_'
              /\ stopped_ => UNCHANGED <<queue_, stopped_, mutex_, cv_, event>>)]_vars
    /\ [][(stopped_ /\ queue_ # <<>> /\ (QStepOf("pop") \/ QStepOf("try_pop")))
          => (/\ Len(trace') \in Returns(trace')
              /\ TakesMin(queue_, Ret.ev, queue_'))]_vars
    /\ [][(QStepOf("pop") /\ Ret.sentinel) => (queue_ = <<>> /\ stopped_)]_vars
    /\ [](\A k \in 1..Len(trace) : \A i, j \in Returns(trace) :
            (/\ trace[k].op = "stop"
             /\ k < i /\ i < j
             /\ \A m \in k..j : trace[m].op # "push")
            => get_timestamp(trace[i].ev) <= get_timestamp(trace[j].ev))

\* Events of time 1 and 0 pushed, stop(), then try_pop() returns the event of
\* time 0 and pop() the event of time 1.
C19_Witness ==
    /\ Len(trace) = 5
    /\ trace[1].op = "push" /\ get_timestamp(trace[1].ev) = 1
    /\ trace[2].op = "push" /\ get_timestamp(trace[2].ev) = 0
    /\ trace[3].op = "stop"
    /\ trace[4].op = "try_pop" /\ trace[4].ok /\ trace[4].ev = trace[2].ev
    /\ trace[5].op = "pop" /\ ~trace[5].sentinel /\ trace[5].ev = trace[1].ev
    /\ queue_ = <<>>

(***************************************************************************)
(* SpecTies: one thread pushing events that all carry the same timestamp   *)
(* and popping them.                                                       *)
(***************************************************************************)
MaxTieOps == 6      \* push/pop calls made on the queue of equal timestamps

TieEvents ==
    {TickEvent(0, "ABC", 198, 202, 10, 10), SignalEvent(0, "ABC", BUY, "s1")}

\* EventQueue::push
TiePush(e) ==
    /\ Len(trace) < MaxTieOps
    /\ queue_' = HeapPush(queue_, e)
    /\ trace' = Append(trace, [op |-> "push", ev |-> e])
    /\ UNCHANGED <<stopped_, mutex_, cv_, last_ticks_, fills_history,
                   slippage_model_, poolVars, running_, events_processed_, pc, event>>

\* EventQueue::pop on a queue that holds an event.
TiePop ==
    /\ Len(trace) < MaxTieOps
    /\ queue_ # <<>>
    /\ trace' = Append(trace, [op |-> "pop", ev |-> HeapTop(queue_),
                               sentinel |-> FALSE])
    /\ queue_' = HeapPop(queue_)
    /\ UNCHANGED <<stopped_, mutex_, cv_, last_ticks_, fills_history,
                   slippage_model_, poolVars, running_, events_processed_, pc, event>>

TNext ==
    \/ \E e \in TieEvents : TiePush(e)
    \/ TiePop

SpecTies == QInit /\ [][TNext]_vars

\* The events pushed, and the events popped, each in call order.
EventsOf(op) ==
    LET calls == SelectSeq(trace, LAMBDA c : c.op = op)
    IN  [i \in 1..Len(calls) |-> calls[i].ev]

\* C26: events of equal timestamps are returned by pop() in the order they
\* were pushed: the k-th pop() returns the k-th event pushed, however pushes
\* and pops interleave.
C26_TiesPoppedInPushOrder ==
    \A k \in 1..Len(EventsOf("pop")) : EventsOf("pop")[k] = EventsOf("push")[k]

(***************************************************************************)
(* backtest/execution_engine.h                                             *)
(***************************************************************************)
PriceUnit == 2      \* a price p of the model is p / PriceUnit currency units
FeeScale == 10000   \* a commission c of the model is c / FeeScale price units

SlippageInput(mid, qty, liquidity, side) ==
    [mid_price |-> mid, order_qty |-> qty, available_liquidity |-> liquidity,
     side |-> side]

\* The injected SlippageModel applied to its input: a pure function of the
\* input, of one of the shapes the engine must accept.
ApplySlippage(model, input) ==
    CASE model.kind = "mid" -> input.mid_price
      [] model.kind = "const" -> model.price
      [] model.kind = "impact" ->
            IF input.side = BUY THEN input.mid_price + input.order_qty
            ELSE input.mid_price - input.order_qty

\* ExecutionEngine::mid_price
mid_price(tick) == (tick.bid + tick.ask) \div 2

\* What slippage_model_(input) returns in compute_execution_price.
slipped_price(order, tick) ==
    ApplySlippage(slippage_model_,
                  SlippageInput(mid_price(tick), order.quantity,
                                tick.bid_volume + tick.ask_volume, order.side))

\* compute_execution_price with the Buy clamp left out.
compute_execution_price_NoBuyClamp(order, tick) ==
    LET slipped == slipped_price(order, tick)
    IN  IF ~is_market_order(order)
           /\ order.side = SELL /\ slipped < order.limit_price
        THEN order.limit_price
        ELSE slipped

\* compute_execution_price with the Sell clamp comparing the wrong way.
compute_execution_price_SellCapped(order, tick) ==
    LET slipped == slipped_price(order, tick)
    IN  IF ~is_market_order(order)
           /\ order.side = BUY /\ slipped > order.limit_price
        THEN order.limit_price
        ELSE IF ~is_market_order(order)
                /\ order.side = SELL /\ slipped > order.limit_price
        THEN order.limit_price
        ELSE slipped

\* compute_execution_price without the is_market_order test.
compute_execution_price_ClampMarket(order, tick) ==
    LET slipped == slipped_price(order, tick)
    IN  IF order.side = BUY /\ slipped > order.limit_price
        THEN order.limit_price
        ELSE IF order.side = SELL /\ slipped < order.limit_price
        THEN order.limit_price
        ELSE slipped

\* compute_execution_price filling every limit order at its limit price.
compute_execution_price_AlwaysLimit(order, tick) ==
    LET slipped == slipped_price(order, tick)
    IN  IF ~is_market_order(order) THEN order.limit_price ELSE slipped

\* ExecutionEngine::compute_execution_price
compute_execution_price(order, tick) ==
    LET slipped == slipped_price(order, tick)
    IN  IF ~is_market_order(order)
           /\ order.side = BUY /\ slipped > order.limit_price
        THEN order.limit_price
        ELSE IF ~is_market_order(order)
                /\ order.side = SELL /\ slipped < order.limit_price
        THEN order.limit_price
        ELSE slipped

fee_rate == 5       \* 0.0005, in 1/FeeScale

\* ExecutionEngine::compute_commission
compute_commission(qty, price) == qty * price * fee_rate

\* MakeFill charging the commission on the price before the limit clamp.
MakeFill_CommissionOnSlipped(order, tick) ==
    LET execution_price == compute_execution_price(order, tick)
        fill_qty == order.quantity
    IN  FillEvent(order.order_id, tick.timestamp, order.symbol, order.side,
                  fill_qty, execution_price,
                  compute_commission(fill_qty, slipped_price(order, tick)),
                  execution_price - mid_price(tick), "SIMULATED")

\* MakeFill stamping the Fill with the Order's timestamp.
MakeFill_OrderTimestamp(order, tick) ==
    LET execution_price == compute_execution_price(order, tick)
        fill_qty == order.quantity
    IN  FillEvent(order.order_id, order.timestamp, order.symbol, order.side,
                  fill_qty, execution_price,
                  compute_commission(fill_qty, execution_price),
                  execution_price - mid_price(tick), "SIMULATED")

\* MakeFill reporting the slippage of the price before the limit clamp.
MakeFill_SlippageBeforeClamp(order, tick) ==
    LET execution_price == compute_execution_price(order, tick)
        fill_qty == order.quantity
    IN  FillEvent(order.order_id, tick.timestamp, order.symbol, order.side,
                  fill_qty, execution_price,
                  compute_commission(fill_qty, execution_price),
                  slipped_price(order, tick) - mid_price(tick), "SIMULATED")

\* The FillEvent on_order assembles for an order priced from tick.
MakeFill(order, tick) ==
    LET execution_price == compute_execution_price(order, tick)
        fill_qty == order.quantity
    IN  FillEvent(order.order_id, tick.timestamp, order.symbol, order.side,
                  fill_qty, execution_price,
                  compute_commission(fill_qty, execution_price),
                  execution_price - mid_price(tick), "SIMULATED")

\* on_tick that keeps the first Tick cached for a symbol.
on_tick_KeepFirst(tick) ==
    /\ last_ticks_' =
         IF tick.symbol \in DOMAIN last_ticks_
         THEN last_ticks_
         ELSE (tick.symbol :> tick) @@ last_ticks_
    /\ UNCHANGED <<fills_history, queue_>>

\* on_tick keeping the cached Tick when it is the newer of the two.
on_tick_KeepNewest(tick) ==
    /\ last_ticks_' =
         IF /\ tick.symbol \in DOMAIN last_ticks_
            /\ get_timestamp(last_ticks_[tick.symbol]) > get_timestamp(tick)
         THEN last_ticks_
         ELSE (tick.symbol :> tick) @@ last_ticks_
    /\ UNCHANGED <<fills_history, queue_>>

\* ExecutionEngine::on_tick
on_tick(tick) ==
    /\ last_ticks_' = (tick.symbol :> tick) @@ last_ticks_
    /\ UNCHANGED <<fills_history, queue_>>

\* on_order reading the cache with operator[]: a missing symbol gets a
\* value-initialised Tick, and the order is priced from it.
on_order_DefaultTick(order) ==
    LET tick == IF order.symbol \in DOMAIN last_ticks_ THEN last_ticks_[order.symbol]
                ELSE TickEvent(0, "", 0, 0, 0, 0)
        fill == MakeFill(order, tick)
    IN  /\ last_ticks_' = (order.symbol :> tick) @@ last_ticks_
        /\ fills_history' = Append(fills_history, fill)
        /\ queue_' = HeapPush(queue_, fill)

\* on_order recording a priced order's Fill twice.
on_order_FillTwice(order) ==
    IF order.symbol \notin DOMAIN last_ticks_
    THEN UNCHANGED <<last_ticks_, fills_history, queue_>>
    ELSE LET fill == MakeFill(order, last_ticks_[order.symbol])
         IN  /\ fills_history' = Append(Append(fills_history, fill), fill)
             /\ queue_' = HeapPush(queue_, fill)
             /\ UNCHANGED last_ticks_

\* on_order recording the Fill without publishing it on the queue.
on_order_NoPublish(order) ==
    IF order.symbol \notin DOMAIN last_ticks_
    THEN UNCHANGED <<last_ticks_, fills_history, queue_>>
    ELSE LET fill == MakeFill(order, last_ticks_[order.symbol])
         IN  /\ fills_history' = Append(fills_history, fill)
             /\ UNCHANGED <<last_ticks_, queue_>>

\* ExecutionEngine::on_order; the push is EventQueue::push with no consumer
\* blocked in pop().
on_order(order) ==
    IF order.symbol \notin DOMAIN last_ticks_
    THEN UNCHANGED <<last_ticks_, fills_history, queue_>>
    ELSE LET fill == MakeFill(order, last_ticks_[order.symbol])
         IN  /\ fills_history' = Append(fills_history, fill)
             /\ queue_' = HeapPush(queue_, fill)
             /\ UNCHANGED last_ticks_

(***************************************************************************)
(* SpecExec: one thread calling on_tick and on_order of an ExecutionEngine *)
(* built with any of the slippage models.                                  *)
(***************************************************************************)
MaxCalls == 3       \* on_tick/on_order calls made

Symbols == {"ABC", "ZZZ"}
PENDING == "PENDING"

SlippageModels ==
    {[kind |-> "mid"], [kind |-> "impact"]}
    \cup {[kind |-> "const", price |-> p] : p \in {199, 201}}

ExecTicks == {TickEvent(ts, sym, 198, 202, 10, 10) : ts \in {0, 2}, sym \in Symbols}

ExecOrders ==
    {OrderEvent(7, 1, sym, side, qty, limit, PENDING, "s1") :
        sym \in Symbols, side \in Side, qty \in {1, 10}, limit \in {0, 199, 201}}

XInit ==
    /\ InitCommon
    /\ slippage_model_ \in SlippageModels

XOnTick(tick) ==
    /\ Len(trace) < MaxCalls
    /\ on_tick(tick)
    /\ trace' = Append(trace, [op |-> "on_tick", tick |-> tick])
    /\ UNCHANGED <<stopped_, mutex_, cv_, slippage_model_, poolVars, running_,
                   events_processed_, pc, event>>

XOnOrder(order) ==
    /\ Len(trace) < MaxCalls
    /\ on_order(order)
    /\ trace' = Append(trace, [op |-> "on_order", order |-> order,
                               priced |-> order.symbol \in DOMAIN last_ticks_])
    /\ UNCHANGED <<stopped_, mutex_, cv_, slippage_model_, poolVars, running_,
                   events_processed_, pc, event>>

XNext ==
    \/ \E tick \in ExecTicks : XOnTick(tick)
    \/ \E order \in ExecOrders : XOnOrder(order)

SpecExec == XInit /\ [][XNext]_vars

(***************************************************************************)
(* Properties of on_order, stated on the state right after a call.         *)
(***************************************************************************)
LastCall == trace[Len(trace)]
LastFill == fills_history[Len(fills_history)]

\* The latest call was an on_order that found a cached Tick.
OrderPriced == trace # <<>> /\ LastCall.op = "on_order" /\ LastCall.priced

\* The Tick that call was priced from (on_order leaves the cache alone).
TickUsed == last_ticks_[LastCall.order.symbol]

\* The price S the slippage model returned to that call.
SlippedOfLastCall == slipped_price(LastCall.order, TickUsed)

\* C4: a non-market Buy order whose slippage-model price S exceeds its limit
\* price L is filled at exactly L.
C4_BuyLimitClamp ==
    (/\ OrderPriced
     /\ ~is_market_order(LastCall.order)
     /\ LastCall.order.side = BUY
     /\ SlippedOfLastCall > LastCall.order.limit_price)
    => LastFill.fill_price = LastCall.order.limit_price

\* Buy, limit 99.5, slippage model returning 100.5: filled at 99.5.
C4_Witness ==
    /\ OrderPriced
    /\ LastCall.order.side = BUY
    /\ LastCall.order.limit_price = 199
    /\ SlippedOfLastCall = 201
    /\ LastFill.fill_price = 199

\* C5: a non-market Sell order whose slippage-model price S is below its limit
\* price L is filled at exactly L.
C5_SellLimitClamp ==
    (/\ OrderPriced
     /\ ~is_market_order(LastCall.order)
     /\ LastCall.order.side = SELL
     /\ SlippedOfLastCall < LastCall.order.limit_price)
    => LastFill.fill_price = LastCall.order.limit_price

\* Sell, limit 100.5, slippage model returning 99.5: filled at 100.5.
C5_Witness ==
    /\ OrderPriced
    /\ LastCall.order.side = SELL
    /\ LastCall.order.limit_price = 201
    /\ SlippedOfLastCall = 199
    /\ LastFill.fill_price = 201

\* C6: an order with limit price 0 is a market order and is never clamped:
\* for either side and any slippage-model price S the fill price is S.
C6_MarketPassthrough ==
    (OrderPriced /\ LastCall.order.limit_price = 0)
    => LastFill.fill_price = SlippedOfLastCall

\* Market orders of both sides filled at a slipped price away from the mid.
C6_Witness ==
    /\ Len(fills_history) >= 2
    /\ OrderPriced
    /\ LastCall.order.limit_price = 0
    /\ LastCall.order.side = SELL
    /\ LastFill.fill_price = SlippedOfLastCall
    /\ LastFill.fill_price # mid_price(TickUsed)
    /\ fills_history[1].side = BUY
    /\ fills_history[1].fill_price # mid_price(TickUsed)

\* C7: every Fill's commission is quantity * fill_price * 0.0005, on the final
\* (clamped) fill price: commission / FeeScale = quantity * fill_price / 2000.
C7_Commission ==
    \A i \in 1..Len(fills_history) :
        2000 * fills_history[i].commission =
            FeeScale * fills_history[i].filled_quantity * fills_history[i].fill_price

\* A clamped fill of quantity 10 at 99.5: commission 10 * 99.5 * 0.0005.
C7_Witness ==
    /\ OrderPriced
    /\ LastFill.filled_quantity = 10
    /\ LastFill.fill_price = 199
    /\ LastFill.fill_price # SlippedOfLastCall
    /\ LastFill.commission = 9950

\* C11: every Fill's timestamp is the timestamp of the cached Tick it was
\* priced from, whatever the Order's own timestamp.
C11_FillTimestampIsTicks ==
    OrderPriced => get_timestamp(LastFill) = get_timestamp(TickUsed)

\* An Order of time 1 priced from a Tick of time 2: the Fill carries 2.
C11_Witness ==
    /\ OrderPriced
    /\ get_timestamp(LastCall.order) = 1
    /\ get_timestamp(TickUsed) = 2
    /\ get_timestamp(LastFill) = 2

\* The on_order calls of the trace that found a cached Tick, in call order.
IsPricedOrder(c) == c.op = "on_order" /\ c.priced
PricedOrders == SelectSeq(trace, IsPricedOrder)

\* C12: the Fills produced are, one for one and in order, the on_order calls
\* that found a cached Tick; each carries its Order's id, symbol and side, the
\* full order quantity and the venue tag "SIMULATED".
C12_OneFillPerPricedOrder ==
    /\ Len(fills_history) = Len(PricedOrders)
    /\ \A k \in 1..Len(fills_history) :
         LET fill == fills_history[k]
             order == PricedOrders[k].order
         IN  /\ fill.type = "FILL"
             /\ fill.order_id = order.order_id
             /\ fill.symbol = order.symbol
             /\ fill.side = order.side
             /\ fill.filled_quantity = order.quantity
             /\ fill.exchange = "SIMULATED"

\* Three calls: a Tick of ABC, an Order of ZZZ (dropped), an Order of ABC of
\* quantity 10 (one Fill of quantity 10).
C12_Witness ==
    /\ Len(trace) = 3
    /\ trace[2].op = "on_order" /\ ~trace[2].priced
    /\ trace[3].op = "on_order" /\ trace[3].priced
    /\ Len(fills_history) = 1
    /\ fills_history[1].filled_quantity = 10
    /\ fills_history[1].symbol = "ABC"

\* C13: every Fill's slippage is its final (clamped) fill price minus the mid
\* price of the Tick used; with the slippage model that returns the mid price
\* and no clamp applied, the slippage is 0.
C13_ReportedSlippage ==
    OrderPriced =>
        /\ LastFill.slippage = LastFill.fill_price - mid_price(TickUsed)
        /\ (slippage_model_.kind = "mid"
              /\ LastFill.fill_price = SlippedOfLastCall) => LastFill.slippage = 0

\* A Buy clamped from 100.5 to its limit 99.5 against a mid of 100: the
\* reported slippage is -0.5, not +0.5.
C13_Witness ==
    /\ OrderPriced
    /\ SlippedOfLastCall = 201
    /\ LastFill.fill_price = 199
    /\ mid_price(TickUsed) = 200
    /\ LastFill.slippage = -1

\* The E2E scenario: Tick(bid 99, ask 101), market Buy of 10 under the mid
\* model: fill price 100, commission 0.5, slippage 0.
C13_MidScenario ==
    /\ OrderPriced
    /\ slippage_model_.kind = "mid"
    /\ LastCall.order.side = BUY
    /\ LastCall.order.quantity = 10
    /\ is_market_order(LastCall.order)
    /\ LastFill.fill_price = 200
    /\ LastFill.commission = 10000
    /\ LastFill.slippage = 0

\* C28: a limit order whose slippage-model price S respects its limit L (Buy
\* with S <= L, Sell with S >= L) is filled at exactly S; so a non-market Buy
\* is never filled above L and a non-market Sell never below L.
C28_LimitRespected ==
    (OrderPriced /\ ~is_market_order(LastCall.order)) =>
        LET L == LastCall.order.limit_price
            S == SlippedOfLastCall
        IN  /\ (LastCall.order.side = BUY /\ S <= L) => LastFill.fill_price = S
            /\ (LastCall.order.side = SELL /\ S >= L) => LastFill.fill_price = S
            /\ LastCall.order.side = BUY => LastFill.fill_price <= L
            /\ LastCall.order.side = SELL => LastFill.fill_price >= L

\* Under the model returning 100.5: a Buy with limit 100.5 is filled at 100.5,
\* then a Sell with limit 99.5 is filled at 100.5; neither is clamped.
C28_Witness ==
    /\ OrderPriced
    /\ LastCall.order.side = SELL
    /\ LastCall.order.limit_price = 199
    /\ SlippedOfLastCall = 201
    /\ LastFill.fill_price = 201
    /\ Len(fills_history) = 2
    /\ fills_history[1].side = BUY
    /\ fills_history[1].fill_price = 201
    /\ trace[Len(trace) - 1].op = "on_order"
    /\ trace[Len(trace) - 1].order.limit_price = 201

\* The step is an on_tick call.
OnTickStep == trace' # trace /\ trace'[Len(trace')].op = "on_tick"

\* C16: after on_tick(t) the cache entry of t.symbol is exactly t, older or
\* not than the entry replaced; the other symbols' entries, the fill history
\* and the queue are unchanged; the cache holds one Tick per symbol, under
\* that Tick's symbol.
C16_OnTickOverwrites ==
    /\ [][OnTickStep =>
            LET t == trace'[Len(trace')].tick
            IN  /\ DOMAIN last_ticks_' = DOMAIN last_ticks_ \cup {t.symbol}
                /\ last_ticks_'[t.symbol] = t
                /\ \A s \in DOMAIN last_ticks_ \ {t.symbol} :
                      last_ticks_'[s] = last_ticks_[s]
                /\ fills_history' = fills_history
                /\ queue_' = queue_]_vars
    /\ [](\A s \in DOMAIN last_ticks_ : last_ticks_[s].symbol = s)

\* A Tick of ZZZ, a Tick of ABC at time 2, then a Tick of ABC at time 0: the
\* cache holds the older Tick for ABC and still the first one for ZZZ.
C16_Witness ==
    /\ Len(trace) = 3
    /\ \A i \in 1..3 : trace[i].op = "on_tick"
    /\ trace[1].tick.symbol = "ZZZ"
    /\ trace[2].tick.symbol = "ABC" /\ get_timestamp(trace[2].tick) = 2
    /\ trace[3].tick.symbol = "ABC" /\ get_timestamp(trace[3].tick) = 0
    /\ last_ticks_["ABC"] = trace[3].tick
    /\ last_ticks_["ZZZ"] = trace[1].tick

(***************************************************************************)
(* src/backtest/backtest_engine.cpp.  One thread (Loop) calls run(); the   *)
(* producer calls push_event(); a third thread (Stopper) calls stop().     *)
(* Every EventQueue method holds mutex_ for its whole body, so each call   *)
(* the engine makes on the queue is one step; the loop is the queue's only *)
(* consumer here.                                                          *)
(***************************************************************************)
MaxPush == 3        \* push_event calls the producer makes
MaxRuns == 2        \* run() calls made on one engine

NoEvent == [type |-> "NONE"]

InRun == pc.loop \notin {"idle", "done"}

RunsCalled == Cardinality({i \in 1..Len(trace) : trace[i].op = "run"})

\* The events external producers push.
EngineEvents ==
    {TickEvent(ts, "ABC", 198, 202, 10, 10) : ts \in Timestamps}
    \cup {SignalEvent(ts, "ABC", side, "s1") : ts \in Timestamps, side \in Side}
    \cup {OrderEvent(0, ts, sym, BUY, 1, 0, PENDING, "s1") :
            ts \in Timestamps, sym \in Symbols}

EInit ==
    /\ queue_ = <<>>
    /\ stopped_ = FALSE
    /\ mutex_ = NoThread
    /\ cv_ = {}
    /\ last_ticks_ = <<>>
    /\ fills_history = <<>>
    /\ slippage_model_ = [kind |-> "mid"]
    /\ running_ = FALSE
    /\ events_processed_ = 0
    /\ pc = [loop |-> "idle", stopper |-> "idle", producer |-> 0]
    /\ event = NoEvent
    /\ trace = <<>>
    /\ NoPool

\* BacktestEngine::push_event
PushEvent(e) ==
    /\ pc.producer < MaxPush
    /\ queue_' = HeapPush(queue_, e)
    /\ pc' = [pc EXCEPT !.producer = @ + 1]
    /\ UNCHANGED <<stopped_, mutex_, cv_, last_ticks_, fills_history,
                   slippage_model_, poolVars, running_, events_processed_, event, trace>>

\* run() is called: control enters the function.
RunCall ==
    /\ pc.loop \in {"idle", "done"}
    /\ RunsCalled < MaxRuns
    /\ pc' = [pc EXCEPT !.loop = "start"]
    /\ trace' = Append(trace, [op |-> "run"])
    /\ UNCHANGED <<queue_, stopped_, mutex_, cv_, last_ticks_, fills_history,
                   slippage_model_, poolVars, running_, events_processed_, event>>

\* run() starting its count of processed events afresh.
RunStart_ResetsCounter ==
    /\ pc.loop = "start"
    /\ running_' = TRUE
    /\ events_processed_' = 0
    /\ pc' = [pc EXCEPT !.loop = "check_running"]
    /\ UNCHANGED <<queue_, stopped_, mutex_, cv_, last_ticks_, fills_history,
                   slippage_model_, poolVars, event, trace>>

\* run() reopening the queue it is about to drain.
RunStart_ReopensQueue ==
    /\ pc.loop = "start"
    /\ running_' = TRUE
    /\ stopped_' = FALSE
    /\ pc' = [pc EXCEPT !.loop = "check_running"]
    /\ UNCHANGED <<queue_, mutex_, cv_, last_ticks_, fills_history,
                   slippage_model_, poolVars, events_processed_, event, trace>>

\* running_ = true;
RunStart ==
    /\ pc.loop = "start"
    /\ running_' = TRUE
    /\ pc' = [pc EXCEPT !.loop = "check_running"]
    /\ UNCHANGED <<queue_, stopped_, mutex_, cv_, last_ticks_, fills_history,
                   slippage_model_, poolVars, events_processed_, event, trace>>

\* while (running_ ...
RunCheckRunning ==
    /\ pc.loop = "check_running"
    /\ IF running_
       THEN pc' = [pc EXCEPT !.loop = "check_empty"] /\ UNCHANGED trace
       ELSE pc' = [pc EXCEPT !.loop = "exiting"] /\ UNCHANGED trace
    /\ UNCHANGED <<queue_, stopped_, mutex_, cv_, last_ticks_, fills_history,
                   slippage_model_, poolVars, running_, events_processed_, event>>

\* The loop leaving with one event still queued.
RunCheckEmpty_ExitsWithOneLeft ==
    /\ pc.loop = "check_empty"
    /\ IF Len(queue_) > 1
       THEN pc' = [pc EXCEPT !.loop = "pop"] /\ UNCHANGED trace
       ELSE pc' = [pc EXCEPT !.loop = "exiting"] /\ UNCHANGED trace
    /\ UNCHANGED <<queue_, stopped_, mutex_, cv_, last_ticks_, fills_history,
                   slippage_model_, poolVars, running_, events_processed_, event>>

\* The loop going on to pop() without looking at the queue.
RunCheckEmpty_NeverLooks ==
    /\ pc.loop = "check_empty"
    /\ pc' = [pc EXCEPT !.loop = "pop"]
    /\ UNCHANGED <<queue_, stopped_, mutex_, cv_, last_ticks_, fills_history,
                   slippage_model_, poolVars, running_, events_processed_, event,
                   trace>>

\* ... && !queue_->empty())
RunCheckEmpty ==
    /\ pc.loop = "check_empty"
    /\ IF queue_ # <<>>
       THEN pc' = [pc EXCEPT !.loop = "pop"] /\ UNCHANGED trace
       ELSE pc' = [pc EXCEPT !.loop = "exiting"] /\ UNCHANGED trace
    /\ UNCHANGED <<queue_, stopped_, mutex_, cv_, last_ticks_, fills_history,
                   slippage_model_, poolVars, running_, events_processed_, event>>

\* run() discarding what is queued when it returns.
RunReturn_DropsQueue ==
    /\ pc.loop = "exiting"
    /\ pc' = [pc EXCEPT !.loop = "done"]
    /\ trace' = Append(trace, [op |-> "return"])
    /\ queue_' = <<>>
    /\ UNCHANGED <<stopped_, mutex_, cv_, last_ticks_, fills_history,
                   slippage_model_, poolVars, running_, events_processed_, event>>

\* The statements after the loop: run() logs and returns.
RunReturn ==
    /\ pc.loop = "exiting"
    /\ pc' = [pc EXCEPT !.loop = "done"]
    /\ trace' = Append(trace, [op |-> "return"])
    /\ UNCHANGED <<queue_, stopped_, mutex_, cv_, last_ticks_, fills_history,
                   slippage_model_, poolVars, running_, events_processed_, event>>

\* pop() returning any of the events that share the earliest timestamp.
RunPop_AnyEarliest ==
    /\ pc.loop = "pop"
    /\ queue_ # <<>> \/ stopped_
    /\ IF queue_ = <<>>
       THEN event' = DefaultEvent /\ UNCHANGED queue_
       ELSE \E i \in 1..Len(queue_) :
              /\ get_timestamp(queue_[i]) = get_timestamp(HeapTop(queue_))
              /\ event' = queue_[i]
              /\ queue_' = [k \in 1..(Len(queue_) - 1) |->
                              IF k < i THEN queue_[k] ELSE queue_[k + 1]]
    /\ pc' = [pc EXCEPT !.loop = "handle"]
    /\ UNCHANGED <<stopped_, mutex_, cv_, last_ticks_, fills_history,
                   slippage_model_, poolVars, running_, events_processed_, trace>>

\* Event event = queue_->pop();  (blocked while the queue is empty and not
\* stopped)
RunPop ==
    /\ pc.loop = "pop"
    /\ queue_ # <<>> \/ stopped_
    /\ IF queue_ = <<>>
       THEN event' = DefaultEvent /\ UNCHANGED queue_
       ELSE event' = HeapTop(queue_) /\ queue_' = HeapPop(queue_)
    /\ pc' = [pc EXCEPT !.loop = "handle"]
    /\ UNCHANGED <<stopped_, mutex_, cv_, last_ticks_, fills_history,
                   slippage_model_, poolVars, running_, events_processed_, trace>>

\* A synthesized order that does not copy the Signal's side.
SynthesizedOrder_AlwaysBuy(signal) ==
    OrderEvent(events_processed_, signal.timestamp, signal.symbol, BUY,
               1, 0, PENDING, signal.strategy_id)

\* The OrderEvent handle_signal synthesizes.
SynthesizedOrder(signal) ==
    OrderEvent(events_processed_, signal.timestamp, signal.symbol, signal.side,
               1, 0, PENDING, signal.strategy_id)

\* BacktestEngine::handle_signal
handle_signal(signal) ==
    /\ queue_' = HeapPush(queue_, SynthesizedOrder(signal))
    /\ UNCHANGED <<last_ticks_, fills_history>>

\* handle_event whose Fill branch records the Fill in the history.
handle_event_FillRecords(e) ==
    CASE e.type = "TICK" -> on_tick(e)
      [] e.type = "SIGNAL" -> handle_signal(e)
      [] e.type = "ORDER" -> on_order(e)
      [] e.type = "FILL" -> /\ fills_history' = Append(fills_history, e)
                            /\ UNCHANGED <<last_ticks_, queue_>>
      [] OTHER -> UNCHANGED <<last_ticks_, fills_history, queue_>>

\* BacktestEngine::handle_event: the visit over the event's kind.  The Fill
\* branch only logs; PositionUpdate and PnLUpdate have no branch.
handle_event(e) ==
    CASE e.type = "TICK" -> on_tick(e)
      [] e.type = "SIGNAL" -> handle_signal(e)
      [] e.type = "ORDER" -> on_order(e)
      [] OTHER -> UNCHANGED <<last_ticks_, fills_history, queue_>>

\* handle_event(event); events_processed_++;
RunHandle ==
    /\ pc.loop = "handle"
    /\ handle_event(event)
    /\ events_processed_' = events_processed_ + 1
    /\ trace' = Append(trace, [op |-> "dispatch", ev |-> event])
    /\ event' = NoEvent
    /\ pc' = [pc EXCEPT !.loop = "check_running"]
    /\ UNCHANGED <<stopped_, mutex_, cv_, slippage_model_, poolVars, running_>>

\* BacktestEngine::stop: running_ = false;
StopClear ==
    /\ pc.stopper = "idle"
    /\ running_' = FALSE
    /\ pc' = [pc EXCEPT !.stopper = "stop_queue"]
    /\ trace' = Append(trace, [op |-> "stop_call",
                               started |-> pc.loop \notin {"idle", "start", "done"}])
    /\ UNCHANGED <<queue_, stopped_, mutex_, cv_, last_ticks_, fills_history,
                   slippage_model_, poolVars, events_processed_, event>>

\* BacktestEngine::stop: queue_->stop();
StopQueue ==
    /\ pc.stopper = "stop_queue"
    /\ stopped_' = TRUE
    /\ pc' = [pc EXCEPT !.stopper = "done"]
    /\ trace' = Append(trace, [op |-> "stop_return"])
    /\ UNCHANGED <<queue_, mutex_, cv_, last_ticks_, fills_history,
                   slippage_model_, poolVars, running_, events_processed_, event>>

(***************************************************************************)
(* SpecBatch: every external event is pushed before the one run() call,    *)
(* and nobody calls stop().                                                *)
(***************************************************************************)
\* A producer that also pushes while run() executes.
BatchPush_Anytime(e) == PushEvent(e)

BatchPush(e) == pc.loop = "idle" /\ PushEvent(e)

BatchRunCall == pc.loop = "idle" /\ RunCall

BNext ==
    \/ \E e \in EngineEvents : BatchPush(e)
    \/ BatchRunCall
    \/ RunStart
    \/ RunCheckRunning
    \/ RunCheckEmpty
    \/ RunReturn
    \/ RunPop
    \/ RunHandle

SpecBatch == EInit /\ [][BNext]_vars

(***************************************************************************)
(* SpecKinds: SpecBatch over events of every kind of the variant.          *)
(***************************************************************************)
KindEvents ==
    {TickEvent(0, "ABC", 198, 202, 10, 10),
     OrderEvent(7, 1, "ABC", BUY, 1, 0, PENDING, "s1"),
     FillEvent(9, 1, "ABC", SELL, 1, 200, 5, 0, "EXTERNAL"),
     PositionUpdateEvent(1, "ABC", 1, 200, 0, 0),
     PnLUpdateEvent(2, 0, 0, 0, 5, 1, 0)}

KNext ==
    \/ \E e \in KindEvents : BatchPush(e)
    \/ BatchRunCall
    \/ RunStart
    \/ RunCheckRunning
    \/ RunCheckEmpty
    \/ RunReturn
    \/ RunPop
    \/ RunHandle

SpecKinds == EInit /\ [][KNext]_vars

\* The kinds of event handle_event does nothing for.
TerminalKinds == {"FILL", "POSITION_UPDATE", "PNL_UPDATE"}

\* C31: dispatching a Fill, a PositionUpdate or a PnLUpdate pushes no event
\* and changes neither the snapshot cache nor the fill history nor the flags;
\* the counter grows by one and the loop goes back to its condition, from
\* which it takes the next event if there is one.
C31_TerminalKindsOnlyCount ==
    /\ [][(pc.loop = "handle" /\ event.type \in TerminalKinds)
          => /\ queue_' = queue_
             /\ last_ticks_' = last_ticks_
             /\ fills_history' = fills_history
             /\ running_' = running_
             /\ stopped_' = stopped_
             /\ events_processed_' = events_processed_ + 1
             /\ pc'.loop = "check_running"]_vars
    /\ [](pc.loop = "done" => queue_ = <<>>)

\* A PositionUpdate, a Fill and a PnLUpdate were pushed and run() has
\* dispatched the three and returned: nothing cached, nothing recorded.
C31_Witness ==
    /\ pc.loop = "done"
    /\ events_processed_ = 3
    /\ \A k \in TerminalKinds :
          \E i \in 1..Len(trace) : trace[i].op = "dispatch" /\ trace[i].ev.type = k
    /\ last_ticks_ = <<>>
    /\ fills_history = <<>>
    /\ queue_ = <<>>

(***************************************************************************)
(* SpecEngine: run(), stop() and push_event() called concurrently.         *)
(***************************************************************************)
\* The events pushed while the loop may be running.
ConcurrentEvents ==
    {TickEvent(0, "ABC", 198, 202, 10, 10)}
    \cup {SignalEvent(ts, "ABC", BUY, "s1") : ts \in {0}}
    \cup {OrderEvent(0, 1, "ABC", BUY, 1, 0, PENDING, "s1")}

ENext ==
    \/ \E e \in ConcurrentEvents : PushEvent(e)
    \/ RunCall
    \/ RunStart
    \/ RunCheckRunning
    \/ RunCheckEmpty
    \/ RunReturn
    \/ RunPop
    \/ RunHandle
    \/ StopClear
    \/ StopQueue

SpecEngine == EInit /\ [][ENext]_vars

(***************************************************************************)
(* SpecRivals: SpecEngine with one more thread that took the shared queue  *)
(* from get_queue() and calls pop() on it.                                 *)
(***************************************************************************)
MaxRivalPops == 1   \* pop() calls the other consumer makes

RivalPops == Cardinality({i \in 1..Len(trace) : trace[i].op = "rival_pop"})

\* EventQueue::pop called by the other consumer (blocked while the queue is
\* empty and not stopped).
RivalPop ==
    /\ RivalPops < MaxRivalPops
    /\ queue_ # <<>> \/ stopped_
    /\ IF queue_ = <<>>
       THEN /\ trace' = Append(trace, [op |-> "rival_pop", ev |-> DefaultEvent])
            /\ UNCHANGED queue_
       ELSE /\ trace' = Append(trace, [op |-> "rival_pop", ev |-> HeapTop(queue_)])
            /\ queue_' = HeapPop(queue_)
    /\ UNCHANGED <<stopped_, mutex_, cv_, last_ticks_, fills_history,
                   slippage_model_, poolVars, running_, events_processed_, pc, event>>

RNext ==
    \/ ENext
    \/ RivalPop

SpecRivals == EInit /\ [][RNext]_vars

(***************************************************************************)
(* SpecStopped: SpecRivals with a producer that pushes Ticks only.         *)
(***************************************************************************)
StoppedEvents == {TickEvent(0, "ABC", 198, 202, 10, 10)}

StoppedNext ==
    \/ \E e \in StoppedEvents : PushEvent(e)
    \/ RunCall
    \/ RunStart
    \/ RunCheckRunning
    \/ RunCheckEmpty
    \/ RunReturn
    \/ RunPop
    \/ RunHandle
    \/ StopClear
    \/ StopQueue
    \/ RivalPop

SpecStopped == EInit /\ [][StoppedNext]_vars

(***************************************************************************)
(* SpecHistory: SpecBatch's driver, who also calls registerFillEvent()     *)
(* while run() is not executing (fills_history has no lock: it belongs to  *)
(* the thread that runs the loop), and a second thread calling stop().     *)
(***************************************************************************)
MaxRegister == 1    \* registerFillEvent calls made

\* The Fills handed to registerFillEvent.
RegisteredFills ==
    {FillEvent(9, 1, "ABC", SELL, 1, 200, 1000, 0, "EXTERNAL")}

Registered == SelectSeq(fills_history, LAMBDA f : f.exchange = "EXTERNAL")

\* registerFillEvent putting the Fill at the front of the history.
registerFillEvent_Front(fill) ==
    fills_history' = <<fill>> \o fills_history

\* BacktestEngine::registerFillEvent
registerFillEvent(fill) ==
    fills_history' = Append(fills_history, fill)

RegisterFillEvent(fill) ==
    /\ pc.loop \in {"idle", "done"}
    /\ Len(Registered) < MaxRegister
    /\ registerFillEvent(fill)
    /\ UNCHANGED <<queue_, stopped_, mutex_, cv_, last_ticks_, slippage_model_, poolVars,
                   running_, events_processed_, pc, event, trace>>

HNext ==
    \/ \E e \in ConcurrentEvents : BatchPush(e)
    \/ BatchRunCall
    \/ RunStart
    \/ RunCheckRunning
    \/ RunCheckEmpty
    \/ RunReturn
    \/ RunPop
    \/ RunHandle
    \/ StopClear
    \/ StopQueue
    \/ \E fill \in RegisteredFills : RegisterFillEvent(fill)

SpecHistory == EInit /\ [][HNext]_vars

(***************************************************************************)
(* SpecFeed: a producer thread calling push_event() while run() is called  *)
(* on the engine, run after run; nobody calls stop().  Each push_event()   *)
(* call is recorded with the place the loop was at.                        *)
(***************************************************************************)
MaxFeed == 2        \* push_event calls the feeding producer makes

\* BacktestEngine::push_event
FeedPush(e) ==
    /\ pc.producer < MaxFeed
    /\ queue_' = HeapPush(queue_, e)
    /\ pc' = [pc EXCEPT !.producer = @ + 1]
    /\ trace' = Append(trace, [op |-> "push", ev |-> e, at |-> pc.loop])
    /\ UNCHANGED <<stopped_, mutex_, cv_, last_ticks_, fills_history,
                   slippage_model_, poolVars, running_, events_processed_, event>>

FNext ==
    \/ \E e \in ConcurrentEvents : FeedPush(e)
    \/ RunCall
    \/ RunStart
    \/ RunCheckRunning
    \/ RunCheckEmpty
    \/ RunReturn
    \/ RunPop
    \/ RunHandle

SpecFeed == EInit /\ [][FNext]_vars

(***************************************************************************)
(* SpecOneRun: a producer thread calling push_event() before, while and    *)
(* after the single run() call made on the engine; nobody calls stop().    *)
(***************************************************************************)
OneRunCall == RunsCalled = 0 /\ RunCall

ONext ==
    \/ \E e \in ConcurrentEvents : FeedPush(e)
    \/ OneRunCall
    \/ RunStart
    \/ RunCheckRunning
    \/ RunCheckEmpty
    \/ RunReturn
    \/ RunPop
    \/ RunHandle

SpecOneRun == EInit /\ [][ONext]_vars

\* The thread inside run() keeps executing.
LoopFairness ==
    WF_vars(RunStart \/ RunCheckRunning \/ RunCheckEmpty \/ RunReturn
            \/ RunPop \/ RunHandle)

FairSpecOneRun == SpecOneRun /\ LoopFairness

(***************************************************************************)
(* Properties of the loop.                                                 *)
(***************************************************************************)
\* The positions of the trace at which the loop dispatched an event.
Dispatches == {i \in 1..Len(trace) : trace[i].op = "dispatch"}

EvAt(i) == trace[i].ev

\* C2: the events run() dispatches are in non-decreasing timestamp order over
\* the whole run, synthesized Orders and simulator Fills included.
C2_DispatchNonDecreasing ==
    \A i, j \in Dispatches :
        i < j => get_timestamp(trace[i].ev) <= get_timestamp(trace[j].ev)

\* The symbols a Tick was dispatched for so far.
TickedSymbols ==
    {trace[i].ev.symbol : i \in {j \in Dispatches : trace[j].ev.type = "TICK"}}

\* C3: on_order for a symbol with no cached Tick produces no Fill and leaves
\* the fill history, the queue and the snapshot cache unchanged; so no run()
\* ends with a Fill for a symbol that never had a Tick.
C3_DropOnNoData ==
    /\ [][(/\ pc.loop = "handle"
           /\ event.type = "ORDER"
           /\ event.symbol \notin DOMAIN last_ticks_)
          => (/\ fills_history' = fills_history
              /\ queue_' = queue_
              /\ last_ticks_' = last_ticks_)]_vars
    /\ [](pc.loop = "done" =>
            \A i \in 1..Len(fills_history) :
                fills_history[i].symbol \in TickedSymbols)

\* A run over a Tick of ABC and an Order of ZZZ has ended without a Fill.
C3_Witness ==
    /\ pc.loop = "done"
    /\ \E i \in Dispatches : trace[i].ev.type = "ORDER" /\ trace[i].ev.symbol = "ZZZ"
    /\ DOMAIN last_ticks_ = {"ABC"}
    /\ fills_history = <<>>
    /\ queue_ = <<>>

SeqToBag(q) ==
    [e \in {q[i] : i \in 1..Len(q)} |-> Cardinality({i \in 1..Len(q) : q[i] = e})]

\* C8: each Signal dispatched pushes exactly one Order, with the Signal's
\* timestamp, symbol, side and strategy id, quantity 1, limit price 0 and
\* status Pending.
C8_SignalToOrder ==
    [][(pc.loop = "handle" /\ event.type = "SIGNAL")
       => \E i \in 1..Len(queue_') :
            /\ SeqToBag(queue_') = SeqToBag(queue_) (+) SetToBag({queue_'[i]})
            /\ queue_'[i].type = "ORDER"
            /\ queue_'[i].timestamp = event.timestamp
            /\ queue_'[i].symbol = event.symbol
            /\ queue_'[i].side = event.side
            /\ queue_'[i].strategy_id = event.strategy_id
            /\ queue_'[i].quantity = 1
            /\ queue_'[i].limit_price = 0
            /\ queue_'[i].status = PENDING]_vars

\* A Sell Signal at time 1 was just dispatched and its Order is queued.
C8_Witness ==
    /\ trace # <<>>
    /\ trace[Len(trace)].op = "dispatch"
    /\ trace[Len(trace)].ev = SignalEvent(1, "ABC", SELL, "s1")
    /\ \E i \in 1..Len(queue_) :
          queue_[i] = OrderEvent(events_processed_ - 1, 1, "ABC", SELL, 1, 0,
                                 PENDING, "s1")

\* C29: the Order synthesized from a Signal carries as id the number of
\* events dispatched before that Signal, over all run() calls of the engine:
\* the counter equals that number, changes only by the increment that ends a
\* dispatch, and is not reset by run(); so a Signal dispatched later gets a
\* strictly greater id.
C29_SynthesizedIdIsCount ==
    /\ [](events_processed_ = Cardinality(Dispatches))
    /\ [][events_processed_' # events_processed_
          => (pc.loop = "handle" /\ events_processed_' = events_processed_ + 1)]_vars
    /\ [][(pc.loop = "handle" /\ pc'.loop # "handle" /\ event.type = "SIGNAL")
          => \E i \in 1..Len(queue_') :
               /\ SeqToBag(queue_') = SeqToBag(queue_) (+) SetToBag({queue_'[i]})
               /\ queue_'[i].type = "ORDER"
               /\ queue_'[i].order_id = Cardinality(Dispatches)
               /\ \A j \in Dispatches :
                     trace[j].ev.type = "SIGNAL"
                     => Cardinality({k \in Dispatches : k < j}) < queue_'[i].order_id]_vars

\* The second run() has just dispatched a Signal, after the first run()
\* dispatched one: the new Order's id is the count of earlier dispatches.
C29_Witness ==
    /\ RunsCalled = 2
    /\ trace[Len(trace)].op = "dispatch"
    /\ trace[Len(trace)].ev.type = "SIGNAL"
    /\ \E r \in 1..Len(trace) :
          /\ trace[r].op = "return"
          /\ \E j \in Dispatches : j < r /\ trace[j].ev.type = "SIGNAL"
    /\ \E i \in 1..Len(queue_) :
          /\ queue_[i].type = "ORDER"
          /\ queue_[i].order_id = events_processed_ - 1
          /\ queue_[i].order_id > 0

IsFill(e) == e.type = "FILL"
IsFillDispatch(c) == c.op = "dispatch" /\ IsFill(c.ev)

\* The Fills the loop has dispatched, in dispatch order.
DispatchedFills ==
    LET d == SelectSeq(trace, IsFillDispatch)
    IN  [i \in 1..Len(d) |-> d[i].ev]

\* The Fill the loop has popped and not yet dispatched, as a bag.
FillInHand == IF IsFill(event) THEN SetToBag({event}) ELSE EmptyBag

C15_HistoryAppendOnly ==
    [][/\ Len(fills_history) <= Len(fills_history')
       /\ SubSeq(fills_history', 1, Len(fills_history)) = fills_history]_vars

\* A Fill registered before run(), a simulator Fill appended behind it by the
\* run, which stop() ended: the history holds both in that order.
C15_Witness ==
    /\ pc.loop = "done"
    /\ pc.stopper = "done"
    /\ Len(fills_history) = 2
    /\ fills_history[1].exchange = "EXTERNAL"
    /\ fills_history[2].exchange = "SIMULATED"

\* The run() in progress at position k of the trace, if any: the position of
\* its call.
RunInProgressAt(k) ==
    {i \in 1..(k - 1) :
        /\ trace[i].op = "run"
        /\ \A m \in (i + 1)..(k - 1) : trace[m].op # "return"}

\* C10: if stop() is called after run() has been invoked, that run() returns
\* after dispatching at most one more event: the run() in progress when stop()
\* was called dispatches at most one event after stop() has returned.
C10_StopEndsRun ==
    \A k, j \in 1..Len(trace) :
        (/\ trace[k].op = "stop_call"
         /\ RunInProgressAt(k) # {}
         /\ trace[j].op = "stop_return")
        => Cardinality({d \in Dispatches :
                          /\ d > j
                          /\ \A m \in k..d : trace[m].op # "return"}) <= 1

\* The same, for a stop() called once run() has executed `running_ = true`.
StopAfterRunStartEndsRun ==
    \A k, j \in 1..Len(trace) :
        (/\ trace[k].op = "stop_call"
         /\ trace[k].started
         /\ trace[j].op = "stop_return")
        => Cardinality({d \in Dispatches :
                          /\ d > j
                          /\ \A m \in k..d : trace[m].op # "return"}) <= 1

\* C22: every Order pushed onto the queue is eventually dispatched to
\* on_order: in particular run() never decides to return while an Order is
\* queued, after which nothing would dispatch it.
C22_NoOrderLeftAtExit ==
    [][(pc.loop = "check_running" /\ pc'.loop = "exiting")
       => \A i \in 1..Len(queue_) : queue_[i].type # "ORDER"]_vars

\* The loop is dispatching an Order that on_order fills.
FillsOrder ==
    /\ pc.loop = "handle"
    /\ event.type = "ORDER"
    /\ Len(fills_history') = Len(fills_history) + 1

\* C33: with every external event pushed before run(), the Fill of an Order
\* carries a timestamp not later than the Order's: the Tick the Order is
\* priced from is not later than the Order.
C33_FillNotAfterOrder ==
    [][FillsOrder
       => /\ last_ticks_[event.symbol].timestamp <= event.timestamp
          /\ fills_history'[Len(fills_history')].timestamp <= event.timestamp]_vars

\* An Order of time 2 was filled from a Tick of time 0, and another from a
\* Tick of its own time.
C33_Witness ==
    /\ Len(fills_history) = 2
    /\ \E i, j \in Dispatches :
          /\ i < j
          /\ EvAt(i).type = "ORDER" /\ EvAt(i).timestamp = 0
          /\ EvAt(j).type = "ORDER" /\ EvAt(j).timestamp = 2
    /\ fills_history[1].timestamp = 0
    /\ fills_history[2].timestamp = 0

\* The Ticks of a symbol among the external events: those dispatched and
\* those still queued.
TicksOf(sym) ==
    {EvAt(i) : i \in {j \in Dispatches : EvAt(j).type = "TICK"
                                          /\ EvAt(j).symbol = sym}}
    \cup {queue_[i] : i \in {j \in 1..Len(queue_) : queue_[j].type = "TICK"
                                                     /\ queue_[j].symbol = sym}}

\* C34: with every external event pushed before run(), an Order of time T
\* is priced from the latest Tick of its symbol before T: no Tick of the
\* symbol lies strictly between the Tick used and T; and the Order is dropped
\* only when no Tick of the symbol is earlier than T.
C34_MostRecentTickUsed ==
    [][(pc.loop = "handle" /\ event.type = "ORDER")
       => IF event.symbol \in DOMAIN last_ticks_
          THEN /\ FillsOrder
               /\ \A t \in TicksOf(event.symbol) :
                     ~(/\ last_ticks_[event.symbol].timestamp < t.timestamp
                       /\ t.timestamp < event.timestamp)
          ELSE /\ fills_history' = fills_history
               /\ \A t \in TicksOf(event.symbol) :
                     ~(t.timestamp < event.timestamp)]_vars

\* Ticks of times 0 and 1 and an Order of time 2 were pushed; the Order was
\* filled from the Tick of time 1.
C34_Witness ==
    /\ pc.loop = "done"
    /\ \E i, j, k \in Dispatches :
          /\ EvAt(i).type = "TICK" /\ EvAt(i).timestamp = 0
          /\ EvAt(j).type = "TICK" /\ EvAt(j).timestamp = 1
          /\ EvAt(k).type = "ORDER" /\ EvAt(k).timestamp = 2
    /\ Len(fills_history) = 1
    /\ fills_history[1].timestamp = 1

\* C32: with the loop as the only consumer, every pop() call of run() finds
\* an event in the queue, whatever producers and stop() do meanwhile: the
\* call does not block, and what it hands to the handlers is not the
\* value-initialised Event.
C32_PopFindsEvent ==
    /\ pc.loop = "pop" => (queue_ # <<>> /\ ENABLED RunPop)
    /\ pc.loop = "handle" => event # DefaultEvent

\* stop() has returned while the loop, past its test of the queue, is about
\* to pop the one event queued.
C32_Witness ==
    /\ pc.loop = "pop"
    /\ pc.stopper = "done"
    /\ stopped_
    /\ Len(queue_) = 1

\* The run() call in progress, or the last one made, was made after stop()
\* had returned.
RunAfterStop ==
    \E i, j \in 1..Len(trace) :
       /\ i < j
       /\ trace[i].op = "stop_return"
       /\ trace[j].op = "run"
       /\ \A k \in (j + 1)..Len(trace) : trace[k].op # "run"

\* C35: no step clears the queue's stopped flag.  Once it is set, a pop()
\* call of the loop or of another consumer is never blocked; push_event()
\* still adds its event to the queue; and a run() called after stop() has
\* returned takes the earliest event whenever the queue is not empty, and
\* leaves its loop only on finding the queue empty.
C35_StoppedForGood ==
    /\ [][stopped_ => stopped_']_vars
    /\ []((stopped_ /\ pc.loop = "pop") => ENABLED RunPop)
    /\ []((stopped_ /\ RivalPops < MaxRivalPops) => ENABLED RivalPop)
    /\ [][(stopped_ /\ pc'.producer = pc.producer + 1)
          => /\ Len(queue_') = Len(queue_) + 1
             /\ \E e \in StoppedEvents :
                   SeqToBag(queue_') = SeqToBag(queue_) (+) SetToBag({e})]_vars
    /\ [][(stopped_ /\ pc.loop = "check_empty" /\ pc'.loop # "check_empty")
          => IF queue_ # <<>> THEN pc'.loop = "pop" ELSE pc'.loop = "exiting"]_vars
    /\ [][(stopped_ /\ pc.loop = "pop" /\ pc'.loop = "handle" /\ queue_ # <<>>)
          => event' = HeapTop(queue_)]_vars
    /\ [][(RunAfterStop /\ pc.loop # "exiting" /\ pc'.loop = "exiting")
          => pc.loop = "check_empty" /\ queue_ = <<>>]_vars

\* stop() returned, then run() was called and dispatched an event pushed to
\* the stopped queue, and the other consumer's pop() came back from the
\* stopped, empty queue with the value-initialised Event.
C35_Witness ==
    /\ stopped_
    /\ \E i, j, k \in 1..Len(trace) :
          /\ i < j /\ j < k
          /\ trace[i].op = "stop_return"
          /\ trace[j].op = "run"
          /\ trace[k].op = "dispatch"
    /\ \E i \in 1..Len(trace) :
          trace[i].op = "rival_pop" /\ trace[i].ev = DefaultEvent

\* C24: whatever run(), stop(), the producers and another consumer of the
\* shared queue do, the loop never dispatches pop()'s value-initialised
\* result as an event, and never caches it as a Tick.
C24_SentinelNeverHandled ==
    /\ \A i \in Dispatches : trace[i].ev # DefaultEvent
    /\ DefaultEvent.symbol \notin DOMAIN last_ticks_

\* The positions of the trace at which push_event() was called.
Pushes == {i \in 1..Len(trace) : trace[i].op = "push"}

\* The number of run() calls made before position i of the trace.
RunOf(i) == Cardinality({k \in 1..i : trace[k].op = "run"})

\* The bag of the values F(i), i in S.
BagOf(S, F(_)) ==
    [e \in {F(i) : i \in S} |-> Cardinality({i \in S : F(i) = e})]

\* C25: order ids are unique per run: when the producers give the Orders
\* they push ids of their own, no two Orders dispatched during one run() carry
\* the same id.
C25_OrderIdsUniquePerRun ==
    (\A i, j \in Pushes :
        (i # j /\ EvAt(i).type = "ORDER" /\ EvAt(j).type = "ORDER")
        => EvAt(i).order_id # EvAt(j).order_id)
    => \A i, j \in Dispatches :
         (/\ i < j
          /\ RunOf(i) = RunOf(j)
          /\ EvAt(i).type = "ORDER"
          /\ EvAt(j).type = "ORDER")
         => EvAt(i).order_id # EvAt(j).order_id

\* The push_event() calls made after the r-th run() saw the queue empty and
\* before it returned.
WindowPushes(r) == {i \in Pushes : RunOf(i) = r /\ trace[i].at = "exiting"}

\* The r-th run() call has returned.
Returned(r) == r < RunsCalled \/ (r = RunsCalled /\ pc.loop = "done")

\* C23: run() leaves the loop the first time it sees the queue empty and
\* then returns without dispatching; an event pushed between that
\* observation and the return is not dispatched by that run() and stays
\* queued, and the next run() to return has dispatched it.
C23_LatePushLeftForNextRun ==
    /\ [][(pc.loop = "check_empty" /\ queue_ = <<>> /\ pc'.loop # "check_empty")
          => pc'.loop = "exiting"]_vars
    /\ [][(pc.loop = "exiting" /\ pc'.loop # "exiting")
          => (pc'.loop = "done" /\ queue_' = queue_ /\ Dispatches' = Dispatches)]_vars
    /\ [](\A i \in Pushes :
            trace[i].at = "exiting"
            => \A j \in Dispatches : j > i => RunOf(j) > RunOf(i))
    /\ [](pc.loop \in {"exiting", "done"}
            => BagOf(WindowPushes(RunsCalled), EvAt) \sqsubseteq SeqToBag(queue_))
    /\ [](\A r \in 1..RunsCalled :
            Returned(r + 1)
            => BagOf(WindowPushes(r), EvAt)
                 \sqsubseteq BagOf({j \in Dispatches : RunOf(j) = r + 1}, EvAt))

\* A Signal pushed while the first run() was returning has been dispatched
\* by the second, which has returned.
C23_Witness ==
    /\ pc.loop = "done"
    /\ RunsCalled = 2
    /\ \E i \in WindowPushes(1) :
          /\ EvAt(i).type = "SIGNAL"
          /\ \E j \in Dispatches : RunOf(j) = 2 /\ EvAt(j) = EvAt(i)

\* The push_event() calls made since the last run() call saw the queue empty
\* for the last time.
LatePushes ==
    {i \in Pushes : RunOf(i) = RunsCalled /\ trace[i].at \in {"exiting", "done"}}

SignalDispatches == {i \in Dispatches : EvAt(i).type = "SIGNAL"}

\* The Order synthesized by the dispatch at position i of the trace.
SynthesizedAt(i) ==
    OrderEvent(Cardinality({k \in Dispatches : k < i}), EvAt(i).timestamp,
               EvAt(i).symbol, EvAt(i).side, 1, 0, PENDING, EvAt(i).strategy_id)

\* C30 as stated: with finitely many pushes, no stop() and no other
\* consumer, at the moment run() returns the queue is empty, every pushed or
\* synthesized event has been dispatched exactly once, and the counter is
\* the number of pushed events plus synthesized Orders plus emitted Fills.
C30_ReturnsDrained ==
    (pc.loop = "done" /\ trace[Len(trace)].op = "return")
    => /\ queue_ = <<>>
       /\ BagOf(Dispatches, EvAt)
            = BagOf(Pushes, EvAt) (+) BagOf(SignalDispatches, SynthesizedAt)
                (+) SeqToBag(fills_history)
       /\ events_processed_ = Cardinality(Pushes) + Cardinality(SignalDispatches)
                                + Len(fills_history)

\* C30, amended: with finitely many pushes, no stop() and no other consumer,
\* run() terminates; once it has returned the queue holds exactly the events
\* pushed after its last look at the queue, every other pushed or
\* synthesized event has been dispatched exactly once, and the counter is the
\* number of those pushed events plus synthesized Orders plus emitted Fills
\* (the counter of a fresh engine being 0).
C30_ReturnsDrainedUpToLastCheck ==
    /\ InRun ~> (pc.loop = "done")
    /\ [](pc.loop = "done"
            => /\ SeqToBag(queue_) = BagOf(LatePushes, EvAt)
               /\ BagOf(Dispatches, EvAt) (+) SeqToBag(queue_)
                    = BagOf(Pushes, EvAt) (+) BagOf(SignalDispatches, SynthesizedAt)
                        (+) SeqToBag(fills_history)
               /\ events_processed_
                    = Cardinality(Pushes \ LatePushes)
                        + Cardinality(SignalDispatches) + Len(fills_history))

\* run() has returned after dispatching a Tick, and a Signal pushed after
\* its last look at the queue, before it returned, is all that is queued.
C30_Witness ==
    /\ pc.loop = "done"
    /\ trace[Len(trace)].op = "return"
    /\ \E i \in LatePushes : trace[i].at = "exiting" /\ EvAt(i).type = "SIGNAL"
    /\ Len(queue_) = 1
    /\ \E j \in Dispatches : EvAt(j).type = "TICK"

\* The events pushed and the events dispatched, each in call order.
PushedEvents ==
    LET c == SelectSeq(trace, LAMBDA x : x.op = "push")
    IN  [i \in 1..Len(c) |-> c[i].ev]

DispatchedEvents ==
    LET c == SelectSeq(trace, LAMBDA x : x.op = "dispatch")
    IN  [i \in 1..Len(c) |-> c[i].ev]

\* The queue after pushing the events of es, in order, onto q.
RECURSIVE PushAll(_, _)
PushAll(q, es) ==
    IF es = <<>> THEN q ELSE PushAll(HeapPush(q, Head(es)), Tail(es))

\* run() of a fresh engine as a function of the queue's content: the loop of
\* pop, handle_event and increment, until the queue is empty.
RECURSIVE Drain(_)
Drain(s) ==
    IF s.queue = <<>>
    THEN s
    ELSE LET e == HeapTop(s.queue)
             q == HeapPop(s.queue)
             t == [s EXCEPT !.dispatched = Append(@, e), !.queue = q]
         IN  Drain(CASE e.type = "TICK" ->
                          [t EXCEPT !.ticks = (e.symbol :> e) @@ @]
                     [] e.type = "SIGNAL" ->
                          [t EXCEPT !.queue =
                             HeapPush(q, OrderEvent(Len(s.dispatched), e.timestamp,
                                                    e.symbol, e.side, 1, 0, PENDING,
                                                    e.strategy_id))]
                     [] e.type = "ORDER" /\ e.symbol \in DOMAIN s.ticks ->
                          LET fill == MakeFill(e, s.ticks[e.symbol])
                          IN  [t EXCEPT !.queue = HeapPush(q, fill),
                                        !.fills = Append(@, fill)]
                     [] OTHER -> t)

Replay(es) ==
    Drain([queue |-> PushAll(<<>>, es), ticks |-> <<>>, fills |-> <<>>,
           dispatched |-> <<>>])

\* C27: an engine whose push_event() calls were all made before run() ends
\* that run() with the fill history, the dispatch sequence and the snapshot
\* cache that the sequence of pushed events and the slippage function
\* determine, events of equal timestamps included: two engines given the same
\* sequence end alike.
C27_Deterministic ==
    (/\ pc.loop = "done"
     /\ RunsCalled = 1
     /\ \A i \in Pushes : trace[i].at = "idle")
    => LET r == Replay(PushedEvents)
       IN  /\ fills_history = r.fills
           /\ DispatchedEvents = r.dispatched
           /\ last_ticks_ = r.ticks
           /\ queue_ = <<>>

\* A Signal and then a Tick of one timestamp were pushed before run(), which
\* has returned: the Signal went first, the Tick second, and the Signal's
\* Order was filled from that Tick.
C27_Witness ==
    /\ pc.loop = "done"
    /\ RunsCalled = 1
    /\ PushedEvents = <<SignalEvent(0, "ABC", BUY, "s1"),
                        TickEvent(0, "ABC", 198, 202, 10, 10)>>
    /\ \A i \in Pushes : trace[i].at = "idle"
    /\ Len(DispatchedEvents) = 4
    /\ DispatchedEvents[1].type = "SIGNAL"
    /\ DispatchedEvents[2].type = "TICK"
    /\ Len(fills_history) = 1

(***************************************************************************)
(* SpecSync: the EventQueue under concurrent callers, at the grain of its  *)
(* mutex and condition variable.  Consumers call pop(), producers call     *)
(* push() (one call each), the stopper calls stop().  A thread in cv_.wait *)
(* is in cv_; a notify takes it out, after which it must reacquire mutex_  *)
(* and test the predicate again.  A wait may also end spuriously.          *)
(***************************************************************************)
NumConsumers == 2   \* threads calling pop()
MaxSyncPush == 2    \* push() calls made, each by a producer thread of its own

Consumers == {<<"consumer", i>> : i \in 1..NumConsumers}
StopperT == <<"stopper", 0>>
Producers == {<<"producer", i>> : i \in 1..MaxSyncPush}

SyncEvents == {TickEvent(0, "ABC", 198, 202, 10, 10)}

\* cv_.notify_all(): the sets of waiters that may be woken.
NotifyAll(waiters) == {waiters}

\* cv_.notify_one(): the sets of waiters that may be woken.
NotifyOne(waiters) == IF waiters = {} THEN {{}} ELSE {{w} : w \in waiters}

\* stop() calling notify_one() where it calls notify_all().
StopWakes_OnlyOne(waiters) == NotifyOne(waiters)

\* The waiters EventQueue::stop wakes.
StopWakes(waiters) == NotifyAll(waiters)

\* push() that notifies nobody.
PushWakes_Nobody(waiters) == {{}}

\* The waiters EventQueue::push wakes.
PushWakes(waiters) == NotifyOne(waiters)

\* pop()'s wait predicate: !queue_.empty() || stopped_
WaitPredicate == queue_ # <<>> \/ stopped_

SInit ==
    /\ queue_ = <<>>
    /\ stopped_ = FALSE
    /\ mutex_ = NoThread
    /\ cv_ = {}
    /\ last_ticks_ = <<>>
    /\ fills_history = <<>>
    /\ slippage_model_ = [kind |-> "mid"]
    /\ running_ = FALSE
    /\ events_processed_ = 0
    /\ pc = [t \in Consumers \cup Producers \cup {StopperT} |->
                IF t \in Consumers THEN [at |-> "idle", waited |-> FALSE]
                ELSE [at |-> "idle"]]
    /\ event = [c \in Consumers |-> NoEvent]
    /\ trace = <<>>
    /\ NoPool

SyncFrame == UNCHANGED <<last_ticks_, fills_history, slippage_model_, poolVars, running_,
                         events_processed_, trace>>

\* A consumer thread calls pop(); each consumer thread makes one call.
PopCall(c) ==
    /\ pc[c].at = "idle"
    /\ pc' = [pc EXCEPT ![c] = [at |-> "lock", waited |-> FALSE]]
    /\ UNCHANGED <<queue_, stopped_, mutex_, cv_, event>>
    /\ SyncFrame

\* std::unique_lock lock(mutex_), and the relock on leaving cv_.wait's sleep.
PopLock(c) ==
    /\ pc[c].at \in {"lock", "woken"}
    /\ mutex_ = NoThread
    /\ mutex_' = c
    /\ pc' = [pc EXCEPT ![c].at = "check"]
    /\ UNCHANGED <<queue_, stopped_, cv_, event>>
    /\ SyncFrame

\* cv_.wait: the predicate is tested with mutex_ held.
PopCheck(c) ==
    /\ pc[c].at = "check"
    /\ pc' = [pc EXCEPT ![c].at = IF WaitPredicate THEN "take" ELSE "block"]
    /\ UNCHANGED <<queue_, stopped_, mutex_, cv_, event>>
    /\ SyncFrame

\* cv_.wait: the predicate was false; release mutex_ and sleep, atomically.
PopBlock(c) ==
    /\ pc[c].at = "block"
    /\ mutex_' = NoThread
    /\ cv_' = cv_ \cup {c}
    /\ pc' = [pc EXCEPT ![c] = [at |-> "waiting", waited |-> TRUE]]
    /\ UNCHANGED <<queue_, stopped_, event>>
    /\ SyncFrame

\* A spurious wakeup of a sleeping consumer.
SpuriousWake(c) ==
    /\ c \in cv_
    /\ cv_' = cv_ \ {c}
    /\ pc' = [pc EXCEPT ![c].at = "woken"]
    /\ UNCHANGED <<queue_, stopped_, mutex_, event>>
    /\ SyncFrame

\* pop() after the wait: return {} or the top, and unlock.
PopTake(c) ==
    /\ pc[c].at = "take"
    /\ IF queue_ = <<>>
       THEN event' = [event EXCEPT ![c] = DefaultEvent] /\ UNCHANGED queue_
       ELSE /\ event' = [event EXCEPT ![c] = HeapTop(queue_)]
            /\ queue_' = HeapPop(queue_)
    /\ mutex_' = NoThread
    /\ pc' = [pc EXCEPT ![c].at = "returned"]
    /\ UNCHANGED <<stopped_, cv_>>
    /\ SyncFrame

\* A producer thread calls push().
PushCall(p) ==
    /\ pc[p].at = "idle"
    /\ pc' = [pc EXCEPT ![p].at = "lock"]
    /\ UNCHANGED <<queue_, stopped_, mutex_, cv_, event>>
    /\ SyncFrame

\* push: std::lock_guard lock(mutex_)
PushLock(p) ==
    /\ pc[p].at = "lock"
    /\ mutex_ = NoThread
    /\ mutex_' = p
    /\ pc' = [pc EXCEPT ![p].at = "insert"]
    /\ UNCHANGED <<queue_, stopped_, cv_, event>>
    /\ SyncFrame

\* push: queue_.push(std::move(event)); and the guard's unlock
PushInsert(p, e) ==
    /\ pc[p].at = "insert"
    /\ queue_' = HeapPush(queue_, e)
    /\ mutex_' = NoThread
    /\ pc' = [pc EXCEPT ![p].at = "notify"]
    /\ UNCHANGED <<stopped_, cv_, event>>
    /\ SyncFrame

\* push: cv_.notify_one()
PushNotify(p) ==
    /\ pc[p].at = "notify"
    /\ \E W \in PushWakes(cv_) :
         /\ cv_' = cv_ \ W
         /\ pc' = [t \in DOMAIN pc |->
                     IF t \in W THEN [pc[t] EXCEPT !.at = "woken"]
                     ELSE IF t = p THEN [at |-> "done"]
                          ELSE pc[t]]
    /\ UNCHANGED <<queue_, stopped_, mutex_, event>>
    /\ SyncFrame

\* The stopper thread calls stop(), once.
StopCall ==
    /\ pc[StopperT].at = "idle"
    /\ pc' = [pc EXCEPT ![StopperT].at = "lock"]
    /\ UNCHANGED <<queue_, stopped_, mutex_, cv_, event>>
    /\ SyncFrame

\* stop: std::lock_guard lock(mutex_)
StopLock ==
    /\ pc[StopperT].at = "lock"
    /\ mutex_ = NoThread
    /\ mutex_' = StopperT
    /\ pc' = [pc EXCEPT ![StopperT].at = "set"]
    /\ UNCHANGED <<queue_, stopped_, cv_, event>>
    /\ SyncFrame

\* stop: stopped_ = true; and the guard's unlock
StopSet ==
    /\ pc[StopperT].at = "set"
    /\ stopped_' = TRUE
    /\ mutex_' = NoThread
    /\ pc' = [pc EXCEPT ![StopperT].at = "notify"]
    /\ UNCHANGED <<queue_, cv_, event>>
    /\ SyncFrame

\* stop: cv_.notify_all()
StopNotify ==
    /\ pc[StopperT].at = "notify"
    /\ \E W \in StopWakes(cv_) :
         /\ cv_' = cv_ \ W
         /\ pc' = [t \in DOMAIN pc |->
                     IF t \in W THEN [pc[t] EXCEPT !.at = "woken"]
                     ELSE IF t = StopperT THEN [at |-> "done"]
                          ELSE pc[t]]
    /\ UNCHANGED <<queue_, stopped_, mutex_, event>>
    /\ SyncFrame

SNext ==
    \/ \E c \in Consumers : PopCall(c)
    \/ \E c \in Consumers : PopLock(c)
    \/ \E c \in Consumers : PopCheck(c)
    \/ \E c \in Consumers : PopBlock(c)
    \/ \E c \in Consumers : SpuriousWake(c)
    \/ \E c \in Consumers : PopTake(c)
    \/ \E p \in Producers : PushCall(p)
    \/ \E p \in Producers : PushLock(p)
    \/ \E p \in Producers : \E e \in SyncEvents : PushInsert(p, e)
    \/ \E p \in Producers : PushNotify(p)
    \/ StopCall
    \/ StopLock
    \/ StopSet
    \/ StopNotify

SpecSync == SInit /\ [][SNext]_vars

\* Every thread that can take a step of the call it is in eventually takes
\* it; a thread waiting for mutex_ gets it if it is free again and again.
\* Nothing obliges a caller to start a call, a wait to end spuriously, nor a
\* producer to get mutex_: a push() must only finish once it holds it.
SyncFairness ==
    /\ \A c \in Consumers :
         /\ SF_vars(PopLock(c))
         /\ WF_vars(PopCheck(c) \/ PopBlock(c) \/ PopTake(c))
    /\ \A p \in Producers :
         WF_vars((\E e \in SyncEvents : PushInsert(p, e)) \/ PushNotify(p))
    /\ SF_vars(StopLock)
    /\ WF_vars(StopSet \/ StopNotify)

FairSpecSync == SpecSync /\ SyncFairness

\* A consumer is inside pop().
InPop(c) == pc[c].at \notin {"idle", "returned"}

\* C9: after stop() is called, every consumer blocked in pop() eventually
\* returns, whatever the interleaving of stop() with the consumers' waits.
C9_StopWakesAll ==
    \A c \in Consumers :
        (pc[StopperT].at # "idle" /\ InPop(c)) ~> (pc[c].at = "returned")

\* Every consumer blocked in pop() on the empty queue, was woken once stop()
\* had been called, and has returned the sentinel.
C9_Witness ==
    /\ pc[StopperT].at = "done"
    /\ stopped_
    /\ \A c \in Consumers :
         /\ pc[c].at = "returned"
         /\ pc[c].waited
         /\ event[c] = DefaultEvent

\* The consumers whose pop() returned an event, the events inserted so far,
\* and the consumers that have called pop().
Delivered == {c \in Consumers : pc[c].at = "returned" /\ event[c] # DefaultEvent}
Inserted == Cardinality({p \in Producers : pc[p].at \in {"notify", "done"}})
Callers == {c \in Consumers : pc[c].at # "idle"}

\* No call is in the middle of its code: every consumer is outside pop(),
\* returned or asleep in cv_.wait, and every push() has notified or not yet
\* taken mutex_.
Quiet ==
    /\ \A c \in Consumers : pc[c].at \in {"idle", "waiting", "returned"}
    /\ \A p \in Producers : pc[p].at \in {"idle", "lock", "done"}
    /\ pc[StopperT].at \in {"idle", "done"}

Min(a, b) == IF a <= b THEN a ELSE b

\* C20: every event inserted is returned to exactly one consumer or still
\* queued; once every call has run its course no consumer sleeps in pop()
\* beside a queued event, and on a queue not stopped exactly min(n, k) of the
\* k consumers that called pop() have returned, n being the events pushed;
\* and a consumer in pop() while the queue holds an event eventually returns
\* or sees the queue emptied by another.
C20_NoConsumerLeftBlocked ==
    /\ [](Cardinality(Delivered) + Len(queue_) = Inserted)
    /\ [](Quiet => (queue_ = <<>> \/ \A c \in Consumers : ~InPop(c)))
    /\ []((Quiet /\ ~stopped_)
            => /\ Cardinality(Delivered) = Min(Inserted, Cardinality(Callers))
               /\ Delivered = {c \in Consumers : pc[c].at = "returned"})
    /\ \A c \in Consumers :
         (queue_ # <<>> /\ InPop(c)) ~> (pc[c].at = "returned" \/ queue_ = <<>>)

\* Every consumer slept in pop() on the empty queue, as many events were
\* pushed by the producers, and each consumer has returned with one; nobody
\* called stop().
C20_Witness ==
    /\ pc[StopperT].at = "idle"
    /\ ~stopped_
    /\ \A p \in Producers : pc[p].at = "done"
    /\ \A c \in Consumers :
         /\ pc[c].at = "returned"
         /\ pc[c].waited
         /\ event[c] \in SyncEvents
    /\ queue_ = <<>>

\* One consumer returned the only event pushed; the other sleeps on.
C20_FewerEvents ==
    /\ ~stopped_
    /\ Inserted = 1
    /\ Cardinality(Delivered) = 1
    /\ \E c \in Consumers : pc[c].at = "waiting" /\ c \in cv_

(***************************************************************************)
(* SpecShared: one thread calling pop(), SpecSync's producers and stopper,  *)
(* and one more thread, the observer, which calls try_pop(), empty() and   *)
(* size() on the same queue.  Each call of the observer is recorded with   *)
(* its result when it returns.                                             *)
(***************************************************************************)
MaxObserve == 2     \* try_pop/empty/size calls the observer makes

ObserverT == <<"observer", 0>>
PopperT == <<"consumer", 1>>

ObserverOps == {"try_pop", "empty", "size"}

ShInit ==
    /\ queue_ = <<>>
    /\ stopped_ = FALSE
    /\ mutex_ = NoThread
    /\ cv_ = {}
    /\ last_ticks_ = <<>>
    /\ fills_history = <<>>
    /\ slippage_model_ = [kind |-> "mid"]
    /\ running_ = FALSE
    /\ events_processed_ = 0
    /\ pc = [t \in {PopperT} \cup Producers \cup {StopperT, ObserverT} |->
                IF t = PopperT THEN [at |-> "idle", waited |-> FALSE]
                ELSE [at |-> "idle"]]
    /\ event = [c \in {PopperT, ObserverT} |-> NoEvent]
    /\ trace = <<>>
    /\ NoPool

ObserverFrame == UNCHANGED <<stopped_, cv_, last_ticks_, fills_history,
                             slippage_model_, poolVars, running_, events_processed_>>

\* The observer calls try_pop(), empty() or size().
ObserverCall(op) ==
    /\ pc[ObserverT].at = "idle"
    /\ Len(trace) < MaxObserve
    /\ pc' = [pc EXCEPT ![ObserverT] = [at |-> "lock", op |-> op]]
    /\ UNCHANGED <<queue_, mutex_, event, trace>>
    /\ ObserverFrame

\* std::lock_guard lock(mutex_) of try_pop, empty and size
ObserverLock ==
    /\ pc[ObserverT].at = "lock"
    /\ mutex_ = NoThread
    /\ mutex_' = ObserverT
    /\ pc' = [pc EXCEPT ![ObserverT].at = "body"]
    /\ UNCHANGED <<queue_, event, trace>>
    /\ ObserverFrame

\* try_pop() that hands out the top and leaves it in the queue.
TryPopBody_LeavesEvent ==
    /\ pc[ObserverT].at = "body"
    /\ pc[ObserverT].op = "try_pop"
    /\ IF queue_ = <<>>
       THEN /\ trace' = Append(trace, [op |-> "try_pop", ret |-> FALSE])
            /\ UNCHANGED event
       ELSE /\ event' = [event EXCEPT ![ObserverT] = HeapTop(queue_)]
            /\ trace' = Append(trace, [op |-> "try_pop", ret |-> TRUE,
                                       ev |-> HeapTop(queue_)])
    /\ UNCHANGED queue_
    /\ mutex_' = NoThread
    /\ pc' = [pc EXCEPT ![ObserverT] = [at |-> "idle"]]
    /\ ObserverFrame

\* try_pop: return false on an empty queue, else move the top to out_event,
\* pop it and return true; and the guard's unlock.
TryPopBody ==
    /\ pc[ObserverT].at = "body"
    /\ pc[ObserverT].op = "try_pop"
    /\ IF queue_ = <<>>
       THEN /\ trace' = Append(trace, [op |-> "try_pop", ret |-> FALSE])
            /\ UNCHANGED <<queue_, event>>
       ELSE /\ event' = [event EXCEPT ![ObserverT] = HeapTop(queue_)]
            /\ queue_' = HeapPop(queue_)
            /\ trace' = Append(trace, [op |-> "try_pop", ret |-> TRUE,
                                       ev |-> HeapTop(queue_)])
    /\ mutex_' = NoThread
    /\ pc' = [pc EXCEPT ![ObserverT] = [at |-> "idle"]]
    /\ ObserverFrame

\* empty: return queue_.empty(); and the guard's unlock.
EmptyBody ==
    /\ pc[ObserverT].at = "body"
    /\ pc[ObserverT].op = "empty"
    /\ trace' = Append(trace, [op |-> "empty", ret |-> (queue_ = <<>>)])
    /\ mutex_' = NoThread
    /\ pc' = [pc EXCEPT ![ObserverT] = [at |-> "idle"]]
    /\ UNCHANGED <<queue_, event>>
    /\ ObserverFrame

\* size: return queue_.size(); and the guard's unlock.
SizeBody ==
    /\ pc[ObserverT].at = "body"
    /\ pc[ObserverT].op = "size"
    /\ trace' = Append(trace, [op |-> "size", ret |-> Len(queue_)])
    /\ mutex_' = NoThread
    /\ pc' = [pc EXCEPT ![ObserverT] = [at |-> "idle"]]
    /\ UNCHANGED <<queue_, event>>
    /\ ObserverFrame

ShNext ==
    \/ PopCall(PopperT)
    \/ PopLock(PopperT)
    \/ PopCheck(PopperT)
    \/ PopBlock(PopperT)
    \/ SpuriousWake(PopperT)
    \/ PopTake(PopperT)
    \/ \E p \in Producers : PushCall(p)
    \/ \E p \in Producers : PushLock(p)
    \/ \E p \in Producers : \E e \in SyncEvents : PushInsert(p, e)
    \/ \E p \in Producers : PushNotify(p)
    \/ StopCall
    \/ StopLock
    \/ StopSet
    \/ StopNotify
    \/ \E op \in ObserverOps : ObserverCall(op)
    \/ ObserverLock
    \/ TryPopBody
    \/ EmptyBody
    \/ SizeBody

SpecShared == ShInit /\ [][ShNext]_vars

\* The try_pop() calls that returned an event.
TryPopped == {i \in 1..Len(trace) : trace[i].op = "try_pop" /\ trace[i].ret}

\* pop() has returned an event.
Popped == pc[PopperT].at = "returned" /\ event[PopperT] # DefaultEvent

\* The number of events pop() and try_pop() calls have returned so far.
Taken == (IF Popped THEN 1 ELSE 0) + Cardinality(TryPopped)

\* The observer's call is returning.
ObserverReturns(op) ==
    /\ pc[ObserverT].at = "body"
    /\ pc[ObserverT].op = op
    /\ pc'[ObserverT].at = "idle"

\* C21: in every interleaving of push, pop, try_pop, empty, size and stop,
\* the events returned so far and the events queued are together the events
\* pushed, every returned event being a pushed one; so no event is returned
\* twice.  size() returns the number pushed minus the number returned, and
\* empty() tells whether the two are equal.
C21_Conservation ==
    /\ [](/\ Taken + Len(queue_) = Inserted
          /\ Popped => event[PopperT] \in SyncEvents
          /\ \A i \in TryPopped : trace[i].ev \in SyncEvents
          /\ \A i \in 1..Len(queue_) : queue_[i] \in SyncEvents)
    /\ [][ObserverReturns("size")
          => trace'[Len(trace')].ret = Inserted - Taken]_vars
    /\ [][ObserverReturns("empty")
          => trace'[Len(trace')].ret = (Inserted = Taken)]_vars

\* Two events were pushed and stop() has returned; pop() returned one
\* event, try_pop() the other, and size() then returned 0.
C21_Witness ==
    /\ Inserted = 2
    /\ pc[StopperT].at = "done"
    /\ Popped
    /\ Len(trace) = 2
    /\ trace[1].op = "try_pop" /\ trace[1].ret
    /\ trace[2].op = "size" /\ trace[2].ret = 0

(***************************************************************************)
(* src/core/thread_pool.cpp and src/core/market_manager.cpp.  The pool's   *)
(* constructor starts the workers, each in worker_loop; the owner thread   *)
(* calls update_tick (which enqueues one task), stop() and the destructor. *)
(* A task is the closure update_tick builds: a symbol and a price; its id  *)
(* is the number of the update_tick call that built it.                    *)
(***************************************************************************)
NumWorkers == 2     \* worker threads of the pool
MaxTasks == 2       \* update_tick calls made

Workers == {<<"worker", i>> : i \in 1..NumWorkers}
OwnerT == <<"owner", 0>>

PoolSymbols == {"ABC"}
PoolPrices == {1}

NoTask == [id |-> 0]

\* AssetData::add_price's default max_size
max_size == 200

Enqueues == {i \in 1..Len(trace) : trace[i].op = "enqueue"}
Execs == {i \in 1..Len(trace) : trace[i].op = "exec"}
StopCalls == {i \in 1..Len(trace) : trace[i].op = "stop"}

PInit ==
    /\ queue_ = <<>>
    /\ stopped_ = FALSE
    /\ mutex_ = NoThread
    /\ cv_ = {}
    /\ last_ticks_ = <<>>
    /\ fills_history = <<>>
    /\ slippage_model_ = [kind |-> "mid"]
    /\ running_ = FALSE
    /\ events_processed_ = 0
    /\ event = NoEvent
    /\ trace = <<>>
    /\ tasks = <<>>
    /\ queue_mutex = NoThread
    /\ condition = {}
    /\ stop_flag = FALSE
    /\ destroyed = {}
    /\ market_data = <<>>
    /\ pc = [t \in Workers \cup {OwnerT} |->
                IF t \in Workers THEN [at |-> "lock", task |-> NoTask]
                ELSE [at |-> "idle", task |-> NoTask, dtor |-> FALSE]]

PoolFrame == UNCHANGED <<queue_, stopped_, mutex_, cv_, last_ticks_, fills_history,
                         slippage_model_, running_, events_processed_, event>>

\* worker_loop: std::unique_lock lock(queue_mutex), and the relock on
\* leaving condition.wait's sleep.
WorkerLock(w) ==
    /\ pc[w].at \in {"lock", "woken"}
    /\ queue_mutex = NoThread
    /\ queue_mutex' = w
    /\ pc' = [pc EXCEPT ![w].at = "check"]
    /\ UNCHANGED <<tasks, condition, stop_flag, destroyed, market_data, trace>>
    /\ PoolFrame

\* condition.wait's predicate: !tasks.empty() || stop_flag
PoolWaitPredicate == tasks # <<>> \/ stop_flag

\* condition.wait: the predicate is tested with queue_mutex held.
WorkerCheck(w) ==
    /\ pc[w].at = "check"
    /\ pc' = [pc EXCEPT ![w].at = IF PoolWaitPredicate THEN "take" ELSE "block"]
    /\ UNCHANGED <<tasks, queue_mutex, condition, stop_flag, destroyed,
                   market_data, trace>>
    /\ PoolFrame

\* condition.wait: the predicate was false; release queue_mutex and sleep,
\* atomically.
WorkerBlock(w) ==
    /\ pc[w].at = "block"
    /\ queue_mutex' = NoThread
    /\ condition' = condition \cup {w}
    /\ pc' = [pc EXCEPT ![w].at = "waiting"]
    /\ UNCHANGED <<tasks, stop_flag, destroyed, market_data, trace>>
    /\ PoolFrame

\* A spurious wakeup of a sleeping worker.
WorkerSpurious(w) ==
    /\ w \in condition
    /\ condition' = condition \ {w}
    /\ pc' = [pc EXCEPT ![w].at = "woken"]
    /\ UNCHANGED <<tasks, queue_mutex, stop_flag, destroyed, market_data, trace>>
    /\ PoolFrame

\* A worker that leaves as soon as the stop flag is set.
WorkerTake_ExitsOnStop(w) ==
    /\ pc[w].at = "take"
    /\ IF stop_flag
       THEN /\ pc' = [pc EXCEPT ![w].at = "exited"]
            /\ UNCHANGED tasks
       ELSE /\ tasks # <<>>
            /\ pc' = [pc EXCEPT ![w] = [at |-> "run", task |-> Head(tasks)]]
            /\ tasks' = Tail(tasks)
    /\ queue_mutex' = NoThread
    /\ UNCHANGED <<condition, stop_flag, destroyed, market_data, trace>>
    /\ PoolFrame

\* worker_loop after the wait: return if (stop_flag && tasks.empty()), else
\* move the front task out and pop it; the lock is released either way.
WorkerTake(w) ==
    /\ pc[w].at = "take"
    /\ IF stop_flag /\ tasks = <<>>
       THEN /\ pc' = [pc EXCEPT ![w].at = "exited"]
            /\ UNCHANGED tasks
       ELSE /\ tasks # <<>>
            /\ pc' = [pc EXCEPT ![w] = [at |-> "run", task |-> Head(tasks)]]
            /\ tasks' = Tail(tasks)
    /\ queue_mutex' = NoThread
    /\ UNCHANGED <<condition, stop_flag, destroyed, market_data, trace>>
    /\ PoolFrame

\* AssetData::add_price
add_price(prices, price) ==
    LET pushed == Append(prices, price)
    IN  IF Len(pushed) > max_size THEN Tail(pushed) ELSE pushed

\* MarketManager::process_symbol's critical section: market_data[symbol]
\* (created empty if absent) gets the price.
process_symbol(symbol, price) ==
    [s \in DOMAIN market_data \cup {symbol} |->
        IF s = symbol
        THEN add_price(IF s \in DOMAIN market_data THEN market_data[s] ELSE <<>>,
                       price)
        ELSE market_data[s]]

\* MarketManager::get_last_price
get_last_price(symbol) ==
    IF symbol \in DOMAIN market_data
    THEN market_data[symbol][Len(market_data[symbol])]
    ELSE 0

\* task(): the closure calls process_symbol(symbol, price); the worker then
\* starts the next round of its loop.
WorkerRun(w) ==
    /\ pc[w].at = "run"
    /\ market_data' = process_symbol(pc[w].task.symbol, pc[w].task.price)
    /\ trace' = Append(trace, [op |-> "exec", task |-> pc[w].task])
    /\ pc' = [pc EXCEPT ![w] = [at |-> "lock", task |-> NoTask]]
    /\ UNCHANGED <<tasks, queue_mutex, condition, stop_flag, destroyed>>
    /\ PoolFrame

\* MarketManager::update_tick: pool.enqueue(closure); enqueue takes the lock.
EnqueueLock(symbol, price) ==
    /\ pc[OwnerT].at = "idle"
    /\ Cardinality(Enqueues) < MaxTasks
    /\ queue_mutex = NoThread
    /\ queue_mutex' = OwnerT
    /\ LET task == [id |-> Cardinality(Enqueues) + 1, symbol |-> symbol,
                    price |-> price]
       IN  /\ pc' = [pc EXCEPT ![OwnerT].at = "push", ![OwnerT].task = task]
           /\ trace' = Append(trace, [op |-> "enqueue", task |-> task])
    /\ UNCHANGED <<tasks, condition, stop_flag, destroyed, market_data>>
    /\ PoolFrame

\* enqueue: tasks.push(std::move(task)); and the unlock
EnqueuePush ==
    /\ pc[OwnerT].at = "push"
    /\ tasks' = Append(tasks, pc[OwnerT].task)
    /\ queue_mutex' = NoThread
    /\ pc' = [pc EXCEPT ![OwnerT].at = "notify", ![OwnerT].task = NoTask]
    /\ UNCHANGED <<condition, stop_flag, destroyed, market_data, trace>>
    /\ PoolFrame

\* The workers an owner's notification wakes.
Wake(W, at) ==
    /\ condition' = condition \ W
    /\ pc' = [t \in DOMAIN pc |->
                IF t \in W THEN [pc[t] EXCEPT !.at = "woken"]
                ELSE IF t = OwnerT THEN [pc[t] EXCEPT !.at = at]
                     ELSE pc[t]]

\* enqueue: condition.notify_one()
EnqueueNotify ==
    /\ pc[OwnerT].at = "notify"
    /\ \E W \in NotifyOne(condition) : Wake(W, "idle")
    /\ UNCHANGED <<tasks, queue_mutex, stop_flag, destroyed, market_data, trace>>
    /\ PoolFrame

\* ThreadPool::stop called by the owner, once: it takes the lock.
PoolStopLock ==
    /\ pc[OwnerT].at = "idle"
    /\ StopCalls = {}
    /\ queue_mutex = NoThread
    /\ queue_mutex' = OwnerT
    /\ pc' = [pc EXCEPT ![OwnerT].at = "stop_set"]
    /\ trace' = Append(trace, [op |-> "stop", queued |-> Len(tasks)])
    /\ UNCHANGED <<tasks, condition, stop_flag, destroyed, market_data>>
    /\ PoolFrame

\* stop: stop_flag = true; and the unlock
PoolStopSet ==
    /\ pc[OwnerT].at = "stop_set"
    /\ stop_flag' = TRUE
    /\ queue_mutex' = NoThread
    /\ pc' = [pc EXCEPT ![OwnerT].at = "stop_notify"]
    /\ UNCHANGED <<tasks, condition, destroyed, market_data, trace>>
    /\ PoolFrame

\* stop: condition.notify_all(); stop() returns to its caller, the owner's
\* code or the destructor.
PoolStopNotify ==
    /\ pc[OwnerT].at = "stop_notify"
    /\ \E W \in NotifyAll(condition) :
          Wake(W, IF pc[OwnerT].dtor THEN "destroy" ELSE "idle")
    /\ UNCHANGED <<tasks, queue_mutex, stop_flag, destroyed, market_data, trace>>
    /\ PoolFrame

(***************************************************************************)
(* SpecPool: the pool while it is alive; every update_tick call sends the  *)
(* same price.                                                             *)
(***************************************************************************)
PNext ==
    \/ \E w \in Workers : WorkerLock(w)
    \/ \E w \in Workers : WorkerCheck(w)
    \/ \E w \in Workers : WorkerBlock(w)
    \/ \E w \in Workers : WorkerSpurious(w)
    \/ \E w \in Workers : WorkerTake(w)
    \/ \E w \in Workers : WorkerRun(w)
    \/ \E s \in PoolSymbols : \E p \in PoolPrices : EnqueueLock(s, p)
    \/ EnqueuePush
    \/ EnqueueNotify
    \/ PoolStopLock
    \/ PoolStopSet
    \/ PoolStopNotify

SpecPool == PInit /\ [][PNext]_vars

\* A thread that can go on taking the next step of worker_loop, or of the
\* enqueue or stop call it is in, takes it in the end.
PoolFairness ==
    /\ \A w \in Workers :
          WF_vars(WorkerLock(w) \/ WorkerCheck(w) \/ WorkerBlock(w)
                  \/ WorkerTake(w) \/ WorkerRun(w))
    /\ WF_vars(EnqueuePush \/ EnqueueNotify \/ PoolStopSet \/ PoolStopNotify)

FairSpecPool == SpecPool /\ PoolFairness

(***************************************************************************)
(* SpecMarket: a MarketManager while it is alive, sent prices that differ. *)
(* MarketManager has no call that stops its pool.                          *)
(***************************************************************************)
MarketPrices == {1, 2}

MNext ==
    \/ \E w \in Workers : WorkerLock(w)
    \/ \E w \in Workers : WorkerCheck(w)
    \/ \E w \in Workers : WorkerBlock(w)
    \/ \E w \in Workers : WorkerSpurious(w)
    \/ \E w \in Workers : WorkerTake(w)
    \/ \E w \in Workers : WorkerRun(w)
    \/ \E s \in PoolSymbols : \E p \in MarketPrices : EnqueueLock(s, p)
    \/ EnqueuePush
    \/ EnqueueNotify

SpecMarket == PInit /\ [][MNext]_vars

(***************************************************************************)
(* SpecDtor: the owner also destroys the pool.  ~ThreadPool calls stop();  *)
(* the members are then destroyed in the reverse of their declaration      *)
(* order, so workers, declared first, is destroyed last, and it is its      *)
(* destruction that joins the threads.  A worker's use of a destroyed      *)
(* member is undefined behaviour: it may go on as if the member were alive, *)
(* or do anything else (crash, hang), which is position "undefined".       *)
(***************************************************************************)
\* The members destroyed before workers, in order of destruction.
DestructionOrder == <<"stop_flag", "condition", "queue_mutex", "tasks">>

\* The members the worker's next step of worker_loop uses.
Uses(w) ==
    CASE pc[w].at \in {"lock", "woken"} -> {"queue_mutex"}
      [] pc[w].at = "check" -> {"tasks", "stop_flag"}
      [] pc[w].at = "block" -> {"condition", "queue_mutex"}
      [] pc[w].at = "waiting" -> {"condition"}
      [] pc[w].at = "take" -> {"stop_flag", "tasks", "queue_mutex"}
      [] OTHER -> {}

\* ~ThreadPool is called: stop() takes the lock.
DtorStopLock ==
    /\ pc[OwnerT].at = "idle"
    /\ queue_mutex = NoThread
    /\ queue_mutex' = OwnerT
    /\ pc' = [pc EXCEPT ![OwnerT].at = "stop_set", ![OwnerT].dtor = TRUE]
    /\ trace' = Append(trace, [op |-> "dtor"])
    /\ UNCHANGED <<tasks, condition, stop_flag, destroyed, market_data>>
    /\ PoolFrame

\* After the destructor's body, the next member in destruction order is
\* destroyed.
DestroyMember ==
    /\ pc[OwnerT].at = "destroy"
    /\ LET n == Cardinality(destroyed) + 1
       IN  /\ destroyed' = destroyed \cup {DestructionOrder[n]}
           /\ pc' = [pc EXCEPT ![OwnerT].at =
                        IF n = Len(DestructionOrder) THEN "join" ELSE "destroy"]
    /\ UNCHANGED <<tasks, queue_mutex, condition, stop_flag, market_data, trace>>
    /\ PoolFrame

\* workers is destroyed: each jthread's destructor joins its thread, which
\* returns once the thread has left worker_loop.
JoinWorkers ==
    /\ pc[OwnerT].at = "join"
    /\ \A w \in Workers : pc[w].at = "exited"
    /\ destroyed' = destroyed \cup {"workers"}
    /\ pc' = [pc EXCEPT ![OwnerT].at = "gone"]
    /\ UNCHANGED <<tasks, queue_mutex, condition, stop_flag, market_data, trace>>
    /\ PoolFrame

\* A worker whose next step uses a destroyed member does something else
\* than the step.
WorkerUndefined(w) ==
    /\ Uses(w) \cap destroyed # {}
    /\ pc' = [pc EXCEPT ![w].at = "undefined"]
    /\ condition' = condition \ {w}
    /\ UNCHANGED <<tasks, queue_mutex, stop_flag, destroyed, market_data, trace>>
    /\ PoolFrame

DNext ==
    \/ \E w \in Workers : WorkerLock(w)
    \/ \E w \in Workers : WorkerCheck(w)
    \/ \E w \in Workers : WorkerBlock(w)
    \/ \E w \in Workers : WorkerSpurious(w)
    \/ \E w \in Workers : WorkerTake(w)
    \/ \E w \in Workers : WorkerRun(w)
    \/ \E w \in Workers : WorkerUndefined(w)
    \/ \E s \in PoolSymbols : \E p \in PoolPrices : EnqueueLock(s, p)
    \/ EnqueuePush
    \/ EnqueueNotify
    \/ PoolStopLock
    \/ DtorStopLock
    \/ PoolStopSet
    \/ PoolStopNotify
    \/ DestroyMember
    \/ JoinWorkers

SpecDtor == PInit /\ [][DNext]_vars

\* C37: while a worker is still in worker_loop, the task queue, the mutex
\* and the condition variable are not destroyed; so no worker's step uses a
\* destroyed member, and none runs into undefined behaviour.
C37_WorkersGoneBeforeMembers ==
    /\ destroyed \cap {"tasks", "queue_mutex", "condition"} # {}
       => \A w \in Workers : pc[w].at = "exited"
    /\ \A w \in Workers :
          /\ Uses(w) \cap destroyed \cap {"tasks", "queue_mutex", "condition"} = {}
          /\ pc[w].at # "undefined"

\* The task of the id-th update_tick call was enqueued, and stop() had not
\* been called by then.
EnqueuedBeforeStop(id) ==
    \E i \in Enqueues :
       /\ trace[i].task.id = id
       /\ \A k \in StopCalls : i < k

Executed(id) == \E i \in Execs : trace[i].task.id = id

\* C36: no task is executed twice, and only enqueued tasks are executed; a
\* worker leaves worker_loop only with the stop flag set and the task queue
\* empty; and a task enqueued before stop() was called is executed in the
\* end, whether or not stop() is called meanwhile.
C36_EveryTaskRunsOnce ==
    /\ [](\A i, j \in Execs : trace[i].task.id = trace[j].task.id => i = j)
    /\ [](\A i \in Execs : \E j \in Enqueues : j < i /\ trace[j].task = trace[i].task)
    /\ [][\A w \in Workers :
            (pc[w].at # "exited" /\ pc'[w].at = "exited")
            => stop_flag /\ tasks = <<>>]_vars
    /\ \A id \in 1..MaxTasks : EnqueuedBeforeStop(id) ~> Executed(id)

\* stop() was called with the two tasks enqueued still in the queue; both
\* were executed after that, and every worker has left worker_loop.
C36_Witness ==
    /\ Len(trace) = 5
    /\ trace[1].op = "enqueue" /\ trace[2].op = "enqueue"
    /\ trace[3].op = "stop" /\ trace[3].queued = 2
    /\ trace[4].op = "exec" /\ trace[5].op = "exec"
    /\ \A w \in Workers : pc[w].at = "exited"

\* Every task enqueued has been executed.
AllTasksCompleted ==
    /\ Enqueues # {}
    /\ \A i \in Enqueues : Executed(trace[i].task.id)

\* The prices update_tick was called with for the symbol, in call order.
PricesSent(symbol) ==
    LET IsCall(r) == r.op = "enqueue" /\ r.task.symbol = symbol
        calls == SelectSeq(trace, IsCall)
    IN  [i \in 1..Len(calls) |-> calls[i].task.price]

\* C38: once every task has completed, the prices stored for a symbol are
\* the prices of its update_tick calls in call order, so get_last_price
\* returns the price of the last call.
C38_LastPriceIsLatestTick ==
    AllTasksCompleted
    => \A s \in PoolSymbols :
          PricesSent(s) # <<>>
          => /\ market_data[s] = PricesSent(s)
             /\ get_last_price(s) = PricesSent(s)[Len(PricesSent(s))]

=============================================================================
